---- MODULE Spec2Model ----
(***************************************************************************)
(* Location resolution and soil classification of the farm dashboard:      *)
(* the debounced lookups of App (src/src/App_old.jsx), of the second App   *)
(* in the same file, of RainForm / CropPlanning and of LandingPage, and    *)
(* fetchSoilType.                                                          *)
(*                                                                         *)
(* Text is a sequence of one-character strings, so that length and trim    *)
(* are computed as the code computes them.  Every lookup carries the       *)
(* number of the effect run (trigger version) that started it; the maps    *)
(* hist, issued, superseded and published are history variables.           *)
(*                                                                         *)
(* A behaviour follows one trigger stream (variable stream): the streams   *)
(* live in different components or different input fields and share no    *)
(* lookup state.                                                           *)
(***************************************************************************)
EXTENDS Integers, Sequences, FiniteSets, TLC

\* ------------------------------------------------------------------ bounds
MaxLen == 3
MaxEdits == 4
MaxAttempts == 2
MaxTicks == 1

\* ------------------------------------------------------------------- text
Chars == {"a", " "}

RECURSIVE TrimStart(_)
TrimStart(s) == IF s # <<>> /\ Head(s) = " " THEN TrimStart(Tail(s)) ELSE s

RECURSIVE TrimEnd(_)
TrimEnd(s) ==
    IF s # <<>> /\ s[Len(s)] = " " THEN TrimEnd(SubSeq(s, 1, Len(s) - 1)) ELSE s

\* String.prototype.trim
Trim(s) == TrimEnd(TrimStart(s))

\* ------------------------------------------------------- geocoding service
\* Two places the external search service knows, as the JSON items it returns.
ItemA ==
    [name |-> <<"A", "y", "r">>, display_name |-> <<"A", "y", "r", ",", "U", "K">>,
     lat |-> "10", lon |-> "20", importance |-> 5,
     city |-> <<"A", "y", "r">>, town |-> <<>>, village |-> <<>>, state |-> <<>>,
     country |-> <<"U", "K">>]
ItemB ==
    [name |-> <<"B", "o", "z">>, display_name |-> <<"B", "o", "z">>,
     lat |-> "-5", lon |-> "30", importance |-> 8,
     city |-> <<>>, town |-> <<>>, village |-> <<>>, state |-> <<>>, country |-> <<>>]

ResultLists == {<<>>, <<ItemA>>, <<ItemA, ItemB>>, <<ItemB, ItemA>>}

\* What a forward lookup can come back with: a success status with a list of
\* candidates, a non-success status, or a network error (fetch rejects).
\* json: the payload parses as JSON (an error payload that parses is an object
\* without candidates).
SearchResponses ==
    {[kind |-> "ok", body |-> d, json |-> TRUE] : d \in ResultLists}
        \cup {[kind |-> "http", body |-> <<>>, json |-> j] : j \in BOOLEAN}
        \cup {[kind |-> "net", body |-> <<>>, json |-> FALSE]}

\* The values one keystroke can turn the text x into.
Keystrokes(x) ==
    (IF Len(x) < MaxLen THEN {Append(x, c) : c \in Chars} ELSE {})
        \cup (IF x # <<>> THEN {SubSeq(x, 1, Len(x) - 1)} ELSE {})

\* A JavaScript number: a finite value (whole degrees here), an infinity or NaN.
Num(n) == [k |-> "num", v |-> n]
NaN == [k |-> "nan", v |-> 0]
Infinity == [k |-> "inf", v |-> 1]
NumberIsNaNNever(x) == FALSE
NumberIsNaN(x) == x.k = "nan"
NumberIsFinite(x) == x.k = "num"

\* The texts a coordinate field can hold: empty, decimal numbers in and out of
\* range, a number followed by letters, the word Infinity, and plain letters.
CoordTexts == {"", "10", "20", "-5", "30", "90", "-90", "180", "-180", "200", "-91",
               "181", "10abc", "Infinity", "abc"}

\* parseFloat: the longest numeric prefix, else NaN.
ParseFloat(str) ==
    CASE str = "10" -> Num(10) [] str = "20" -> Num(20) [] str = "-5" -> Num(-5)
      [] str = "30" -> Num(30) [] str = "90" -> Num(90) [] str = "-90" -> Num(-90)
      [] str = "180" -> Num(180) [] str = "-180" -> Num(-180) [] str = "200" -> Num(200)
      [] str = "-91" -> Num(-91) [] str = "181" -> Num(181) [] str = "10abc" -> Num(10)
      [] str = "Infinity" -> Infinity
      [] OTHER -> NaN

\* String(n), Number.prototype.toString
NumberToString(x) ==
    CASE x = Num(10) -> "10" [] x = Num(20) -> "20" [] x = Num(-5) -> "-5"
      [] x = Num(30) -> "30" [] x = Num(90) -> "90" [] x = Num(-90) -> "-90"
      [] x = Num(180) -> "180" [] x = Num(-180) -> "-180" [] x = Num(200) -> "200"
      [] x = Num(-91) -> "-91" [] x = Num(181) -> "181"
      [] x = Infinity -> "Infinity"
      [] OTHER -> "NaN"

AbortStreams == {"area", "place"}
TimerOnlyStreams == {"area2", "loc"}
Streams == AbortStreams \cup TimerOnlyStreams
\* "land": the map of LandingPage; "dash": the dashboard session of App.
\* "pick": the place lookup behind the dashboard's area suggestions.
PlaceStreams == {"place", "pick"}
Components == Streams \cup {"land", "dash", "form"}

VARIABLES
    stream,             \* the trigger stream this behaviour follows
    mounted,            \* the component is mounted
    edits,              \* user actions so far
    areaInput, areaSuggestions,
    placeName, locationMethod, placeGeocodeLoading, placeGeocodeError,
    placeMatch, latitude, longitude,
    searchQuery, searchResults, showSearchResults, isSearching, searchError,
    lat, lon, locationName,
    date,               \* RainForm: the date field
    lastSubmit,         \* RainForm: what the last handleSubmit saw and did
    formData, locationType,
    soilType, soilTypeError, soilTypeLoading,
    soilAttempts,       \* the fetchSoilType calls that have not returned
    soilCalls,          \* fetchSoilType calls so far
    soilSource,         \* what the value of soilType rests on
    soilWriter,         \* the fetchSoilType call that last wrote soilType or soilTypeError
    soilTrace,          \* per fetchSoilType call: its coordinate and what it did
    showDashboard, isRevealing,
    revealTimeout,      \* the 450 ms reveal timer is pending
    dateInput, cropType, cropInput, dashboardDate,
    cropSuccessLoading, cropSuccessError, cropSuccess, cropDetails, cropTrend,
    scoreJobs,          \* fetchCropSuccess calls waiting in their 200 ms delay, oldest first
    submissions,        \* handleLandingSearch calls so far
    invoked,            \* the coordinates fetchSoilType and fetchCropSuccess were called with
    clockMonth,         \* new Date().getUTCMonth() + 1
    ticks,              \* month changes so far
    engineIn, engineOut, \* arguments and result of the last computeCropSuccessDetailed
    engineRepeat,       \* the call before it had the same arguments and another result
    lastRequestTime,    \* NominatimGeocodingService: 0, or when a response set it
                        \* (1 where no clock is followed)
    dateNow,                \* Date.now(), in units of 500 ms
    searchTimer,        \* RainForm's pending debounce timer, with the time it is due
    searchCalls,        \* searchLocation calls in progress, under the clock
    sendLog,            \* the times searchLocation sent a request
    waiting,            \* searchLocation calls sleeping in the rate-limit delay
    timers,             \* per stream: the pending setTimeout callbacks
    reqs,               \* per stream: the requests sent and not yet settled
    revReqs,            \* reverse-geocode requests sent and not yet settled
    errorLog,           \* console.error calls, as <<stream, version>>
    hist,               \* per stream: the trigger values, one per effect run
    issued,             \* per stream: the requests sent, [ver, q]
    superseded,         \* per stream: versions replaced while their timer was pending
    published           \* per stream: version of the lookup that last wrote results

vars ==
    <<stream, mounted, edits, areaInput, areaSuggestions,
      placeName, locationMethod, placeGeocodeLoading, placeGeocodeError,
      placeMatch, latitude, longitude,
      searchQuery, searchResults, showSearchResults, isSearching, searchError,
      lat, lon, locationName, lastRequestTime, waiting, date, lastSubmit,
      dateNow, searchTimer, searchCalls, sendLog,
      formData, locationType,
      soilType, soilTypeError, soilTypeLoading, soilAttempts, soilCalls, soilSource,
      soilWriter, soilTrace, showDashboard, isRevealing, revealTimeout, dateInput, cropType,
      cropInput, dashboardDate, cropSuccessLoading, cropSuccessError, cropSuccess,
      cropDetails, cropTrend, scoreJobs, submissions, invoked, clockMonth,
      ticks, engineIn, engineOut, engineRepeat,
      timers, reqs, revReqs, errorLog, hist, issued, superseded, published>>

appAreaVars == <<areaInput, areaSuggestions>>
appPlaceVars ==
    <<placeName, locationMethod, placeGeocodeLoading, placeGeocodeError,
      placeMatch, latitude, longitude>>
soilVars ==
    <<soilType, soilTypeError, soilTypeLoading, soilAttempts, soilCalls, soilSource,
      soilWriter, soilTrace>>
dashInputs == <<dateInput, cropType, cropInput, dashboardDate>>
scoreVars ==
    <<cropSuccessLoading, cropSuccessError, cropSuccess, cropDetails, cropTrend,
      scoreJobs, invoked>>
engineVars == <<clockMonth, ticks, engineIn, engineOut, engineRepeat>>
dashVars ==
    <<dashInputs, showDashboard, isRevealing, revealTimeout, submissions, scoreVars,
      engineVars>>
landingVars == <<formData, locationType>>
rateVars == <<dateNow, searchTimer, searchCalls, sendLog>>
submitVars == <<date, lastSubmit>>
rainFormVars ==
    <<searchQuery, searchResults, showSearchResults, isSearching, searchError,
      lat, lon, locationName, lastRequestTime, waiting, submitVars>>

Ver(s) == Len(hist[s])

\* ---------------------------------------------------- effect bookkeeping
\* clearTimeout(timer) of an effect's cleanup.
ClearTimeoutSkipped(pending) == pending
ClearTimeout(pending) == {}

\* controller.abort() of an effect's cleanup: fetch rejects with AbortError at
\* once, so the aborted request is settled within the same task.
AbortSkipped(inflight) == inflight
Abort(inflight) == {}

\* A new effect run for trigger value v in stream s: the previous run's cleanup
\* (clearTimeout, and abort when the stream has a controller), then the new
\* timer when arm holds.
Rerun(s, v, q, arm, aborts) ==
    LET n == Ver(s) + 1 IN
    /\ hist' = [hist EXCEPT ![s] = Append(@, v)]
    /\ superseded' = [superseded EXCEPT ![s] = @ \cup {t.ver : t \in timers[s]}]
    /\ timers' = [timers EXCEPT ![s] =
            ClearTimeout(@) \cup (IF arm THEN {[ver |-> n, q |-> q]} ELSE {})]
    /\ reqs' = [reqs EXCEPT ![s] = IF aborts THEN Abort(@) ELSE @]

\* The timer callback reaches fetch: the request is on the wire.
Send(s, t) ==
    /\ timers' = [timers EXCEPT ![s] = @ \ {t}]
    /\ reqs' = [reqs EXCEPT ![s] = @ \cup {t}]
    /\ issued' = [issued EXCEPT ![s] = @ \cup {t}]

\* ------------------------------------------- App: debounced area search
AreaBelowThresholdOff(v) == Len(v) < 1
AreaBelowThreshold(v) == Len(v) < 2

\* useEffect[areaInput]: cleanup of the previous run, then the new run.
AreaEffect(v) ==
    /\ Rerun("area", v, v, ~AreaBelowThreshold(v), TRUE)
    /\ areaSuggestions' = IF AreaBelowThreshold(v) THEN <<>> ELSE areaSuggestions

\* onChange of the area input: the user types a character or deletes one.
AreaEdit ==
    /\ stream = "area" /\ mounted /\ edits < MaxEdits
    /\ \E v \in Keystrokes(areaInput) :
        /\ areaInput' = v
        /\ AreaEffect(v)
    /\ edits' = edits + 1
    /\ UNCHANGED <<dashVars, soilVars, landingVars, rateVars, rainFormVars, stream, mounted, appPlaceVars, revReqs, errorLog, issued, published>>

\* The 300 ms timer fires: fetch is called with the captured areaInput.
AreaTimerFire ==
    /\ stream = "area" /\ mounted
    /\ \E t \in timers["area"] : Send("area", t)
    /\ UNCHANGED <<dashVars, soilVars, landingVars, rateVars, rainFormVars, stream, mounted, edits, appAreaVars, appPlaceVars, revReqs,
                   errorLog, hist, superseded, published>>

\* The fetch settles: suggestions are set on a success status, nothing is
\* written on a non-success status, a network error is logged.
AreaResponse(resp) ==
    /\ stream = "area" /\ mounted
    /\ \E r \in reqs["area"] :
        /\ reqs' = [reqs EXCEPT !["area"] = @ \ {r}]
        /\ areaSuggestions' = IF resp.kind = "ok" THEN resp.body ELSE areaSuggestions
        /\ published' = IF resp.kind = "ok"
                        THEN [published EXCEPT !["area"] = r.ver] ELSE published
        /\ errorLog' = IF resp.kind = "net"
                       THEN errorLog \cup {<<"area", r.ver>>} ELSE errorLog
    /\ UNCHANGED <<dashVars, soilVars, landingVars, rateVars, rainFormVars, stream, mounted, edits, areaInput, appPlaceVars, timers,
                   revReqs, hist, issued, superseded>>

AreaSettles == \E resp \in SearchResponses : AreaResponse(resp)

\* ------------------------------------------ App: place-name geocoding
PlaceBelowThreshold(name) == name = <<>> \/ Len(Trim(name)) < 3

\* catch / finally of the place lookup when its fetch is aborted: AbortError sets
\* no error, finally clears the loading flag.
PlaceAbortedErrorLeaky(err) == "AbortError"
PlaceAbortedError(err) == err

\* useEffect[placeName, locationMethod] for the new dependency values: cleanup of
\* the previous run, then the new run.
PlaceEffectWithoutFinally(name, method) ==
    LET below == PlaceBelowThreshold(name)
        cancelled == reqs["place"] # {} IN
    /\ Rerun("place", <<name, method>>, name, method = "place" /\ ~below, TRUE)
    /\ placeMatch' = IF method = "place" /\ below THEN <<>> ELSE placeMatch
    /\ placeGeocodeError' =
            IF method = "place" /\ below THEN ""
            ELSE IF cancelled THEN PlaceAbortedError(placeGeocodeError)
            ELSE placeGeocodeError
    /\ placeGeocodeLoading' = placeGeocodeLoading
PlaceEffect(name, method) ==
    LET below == PlaceBelowThreshold(name)
        cancelled == reqs["place"] # {} IN
    /\ Rerun("place", <<name, method>>, name, method = "place" /\ ~below, TRUE)
    /\ placeMatch' = IF method = "place" /\ below THEN <<>> ELSE placeMatch
    /\ placeGeocodeError' =
            IF method = "place" /\ below THEN ""
            ELSE IF cancelled THEN PlaceAbortedError(placeGeocodeError)
            ELSE placeGeocodeError
    /\ placeGeocodeLoading' = IF cancelled THEN FALSE ELSE placeGeocodeLoading

\* The effect does not run when no dependency changed.
PlaceEffectSkipped ==
    UNCHANGED <<timers, reqs, hist, superseded, placeMatch, placeGeocodeError,
                placeGeocodeLoading>>

\* onChange of the place-name input, rendered in place mode only.
PlaceEdit ==
    /\ stream \in PlaceStreams /\ mounted /\ edits < MaxEdits
    /\ locationMethod = "place"
    /\ \E v \in Keystrokes(placeName) :
        /\ placeName' = v
        /\ PlaceEffect(v, locationMethod)
    /\ edits' = edits + 1
    /\ UNCHANGED <<dashVars, soilVars, landingVars, rateVars, rainFormVars, stream, mounted, appAreaVars, locationMethod, latitude, longitude,
                   revReqs, errorLog, issued, published>>

\* onChange of the location-method select.
SetLocationMethod ==
    /\ stream = "place" /\ mounted /\ edits < MaxEdits
    /\ \E m \in {"coordinates", "place", "map"} \ {locationMethod} :
        /\ locationMethod' = m
        /\ PlaceEffect(placeName, m)
    /\ edits' = edits + 1
    /\ UNCHANGED <<dashVars, soilVars, landingVars, rateVars, rainFormVars, stream, mounted, appAreaVars, placeName, latitude, longitude,
                   revReqs, errorLog, issued, published>>

\* The 400 ms timer fires: loading is set, the error cleared, fetch called.
PlaceTimerFire ==
    /\ stream \in PlaceStreams /\ mounted
    /\ \E t \in timers["place"] : Send("place", t)
    /\ placeGeocodeLoading' = TRUE
    /\ placeGeocodeError' = ""
    /\ UNCHANGED <<dashVars, soilVars, landingVars, rateVars, rainFormVars, stream, mounted, edits, appAreaVars, placeName, locationMethod,
                   placeMatch, latitude, longitude, revReqs, errorLog, hist,
                   superseded, published>>

\* first.display_name || ""
FirstNameOf(data) == data[1].display_name

\* What the place lookup writes when its fetch settles with resp.
PlaceOutcomeLastCandidate(resp) ==
    IF resp.kind = "http"
    THEN [lat |-> latitude, lon |-> longitude, match |-> placeMatch,
          err |-> "Geocode failed"]
    ELSE IF resp.kind = "net"
    THEN [lat |-> latitude, lon |-> longitude, match |-> placeMatch,
          err |-> "Failed to fetch"]
    ELSE IF Len(resp.body) > 0
    THEN [lat |-> resp.body[Len(resp.body)].lat, lon |-> resp.body[Len(resp.body)].lon,
          match |-> resp.body[Len(resp.body)].display_name, err |-> placeGeocodeError]
    ELSE [lat |-> "", lon |-> "", match |-> <<>>, err |-> "No match found"]
PlaceOutcome(resp) ==
    IF resp.kind = "http"
    THEN [lat |-> latitude, lon |-> longitude, match |-> placeMatch,
          err |-> "Geocode failed"]
    ELSE IF resp.kind = "net"
    THEN [lat |-> latitude, lon |-> longitude, match |-> placeMatch,
          err |-> "Failed to fetch"]
    ELSE IF Len(resp.body) > 0
    THEN [lat |-> resp.body[1].lat, lon |-> resp.body[1].lon,
          match |-> FirstNameOf(resp.body), err |-> placeGeocodeError]
    ELSE [lat |-> latitude, lon |-> longitude, match |-> <<>>,
          err |-> "No match found"]

PlaceResponse(resp) ==
    /\ stream \in PlaceStreams /\ mounted
    /\ \E r \in reqs["place"] :
        /\ reqs' = [reqs EXCEPT !["place"] = @ \ {r}]
        /\ published' = [published EXCEPT !["place"] = r.ver]
    /\ LET o == PlaceOutcome(resp) IN
        /\ latitude' = o.lat
        /\ longitude' = o.lon
        /\ placeMatch' = o.match
        /\ placeGeocodeError' = o.err
    /\ placeGeocodeLoading' = FALSE
    /\ UNCHANGED <<dashVars, soilVars, landingVars, rateVars, rainFormVars, stream, mounted, edits, appAreaVars, placeName, locationMethod,
                   timers, revReqs, errorLog, hist, issued, superseded>>

PlaceSettles == \E resp \in SearchResponses : PlaceResponse(resp)

\* A click on an area suggestion in the dashboard, followed for the place
\* lookup: the suggestion's name becomes the place name and the method 'place',
\* so the place effect runs for them.
PickSuggestionPlace ==
    /\ stream = "pick" /\ mounted /\ edits < MaxEdits
    /\ showDashboard
    /\ \E i \in 1..Len(areaSuggestions) :
        LET suggestion == areaSuggestions[i] IN
        /\ areaInput' = suggestion.display_name
        /\ placeName' = suggestion.display_name
        /\ latitude' = suggestion.lat
        /\ longitude' = suggestion.lon
    /\ locationMethod' = "place"
    /\ IF <<placeName', locationMethod'>> # <<placeName, locationMethod>>
       THEN PlaceEffect(placeName', locationMethod')
       ELSE PlaceEffectSkipped
    /\ edits' = edits + 1
    /\ UNCHANGED <<dashVars, soilVars, landingVars, rateVars, rainFormVars, stream, mounted,
                   areaSuggestions, revReqs, errorLog, issued, published>>

\* --------------------------------------------- App: map click, reverseGeocode
\* Where the user can click, with the display name the reverse service has there.
MapPoints ==
    {[lat |-> 10, lon |-> 20, display_name |-> ItemA.display_name],
     [lat |-> -5, lon |-> 30, display_name |-> ItemB.display_name]}

\* What a reverse lookup can come back with: a status (or a network error) and a
\* payload that carries a display name, carries none, or is not JSON.
ReverseResponses ==
    {[kind |-> k, body |-> b] : k \in {"ok", "http"}, b \in {"name", "noname", "notjson"}}
        \cup {[kind |-> "net", body |-> "notjson"]}

\* MapView.onMapClick: coordinates and method are set, reverseGeocode is started.
MapClick ==
    /\ stream = "place" /\ mounted /\ edits < MaxEdits
    /\ \E p \in MapPoints :
        /\ latitude' = NumberToString(Num(p.lat))
        /\ longitude' = NumberToString(Num(p.lon))
        /\ revReqs' = revReqs \cup {[id |-> edits + 1, at |-> p]}
    /\ locationMethod' = "map"
    /\ IF locationMethod # "map"
       THEN PlaceEffect(placeName, "map")
       ELSE PlaceEffectSkipped
    /\ edits' = edits + 1
    /\ UNCHANGED <<dashVars, soilVars, landingVars, rateVars, rainFormVars, stream, mounted, appAreaVars, placeName, errorLog, issued, published>>

\* reverseGeocode after its fetch settles: the display name, when the status is a
\* success and the payload carries one, else nothing.
ReverseName(r, resp) ==
    IF resp.kind = "ok" /\ resp.body = "name" THEN r.at.display_name ELSE placeName

RevResponse(resp) ==
    /\ stream = "place" /\ mounted
    /\ \E r \in revReqs :
        /\ revReqs' = revReqs \ {r}
        /\ placeName' = ReverseName(r, resp)
        /\ IF placeName' # placeName
           THEN PlaceEffect(placeName', locationMethod)
           ELSE PlaceEffectSkipped
    /\ UNCHANGED <<dashVars, soilVars, landingVars, rateVars, rainFormVars, stream, mounted, edits, appAreaVars, locationMethod, latitude,
                   longitude, errorLog, issued, published>>

RevSettles == \E resp \in ReverseResponses : RevResponse(resp)

\* ------------------------------------ LandingPage: handleMapClick
\* The location types of LandingForm; the one the page starts with is a prop.
LocationTypes == {"coordinates", "text", "map"}

\* Number.prototype.toFixed(6) on the coordinates of the map points.
ToFixed6(n) ==
    CASE n = 10 -> "10.000000" [] n = 20 -> "20.000000"
      [] n = -5 -> "-5.000000" [] n = 30 -> "30.000000"

\* handleMapClick up to its await: the coordinate and the location type are set
\* and the reverse lookup is sent.
LandMapClick ==
    /\ stream = "land" /\ mounted /\ edits < MaxEdits
    /\ \E p \in MapPoints :
        /\ formData' = [formData EXCEPT !.latitude = ToFixed6(p.lat),
                                        !.longitude = ToFixed6(p.lon)]
        /\ revReqs' = revReqs \cup {[id |-> edits + 1, at |-> p]}
    /\ locationType' = "coordinates"
    /\ edits' = edits + 1
    /\ UNCHANGED <<rateVars, dashVars, soilVars, appAreaVars, appPlaceVars, rainFormVars, stream, mounted, timers,
                   reqs, errorLog, hist, issued, superseded, published>>

\* LandingForm: the location-type buttons.
SetLocationType ==
    /\ stream = "land" /\ mounted /\ edits < MaxEdits
    /\ \E t \in LocationTypes \ {locationType} : locationType' = t
    /\ edits' = edits + 1
    /\ UNCHANGED <<rateVars, dashVars, soilVars, appAreaVars, appPlaceVars, rainFormVars, stream, mounted, formData,
                   timers, reqs, revReqs, errorLog, hist, issued, superseded,
                   published>>

\* LandingForm: onChange of the area input, rendered for the text type only.
LandAreaEdit ==
    /\ stream = "land" /\ mounted /\ edits < MaxEdits
    /\ locationType = "text"
    /\ \E v \in Keystrokes(formData.area) : formData' = [formData EXCEPT !.area = v]
    /\ edits' = edits + 1
    /\ UNCHANGED <<rateVars, dashVars, soilVars, appAreaVars, appPlaceVars, rainFormVars, stream, mounted,
                   locationType, timers, reqs, revReqs, errorLog, hist, issued,
                   superseded, published>>

\* handleMapClick after its fetch settles: the status is not looked at; the
\* payload's display name, when it parses and carries one, becomes the area.
LandArea(r, resp) ==
    IF resp.kind # "net" /\ resp.body = "name" THEN r.at.display_name ELSE formData.area

LandResponse(resp) ==
    /\ stream = "land" /\ mounted
    /\ \E r \in revReqs :
        /\ revReqs' = revReqs \ {r}
        /\ formData' = [formData EXCEPT !.area = LandArea(r, resp)]
        /\ errorLog' = IF resp.kind = "net" \/ resp.body = "notjson"
                       THEN errorLog \cup {<<"land", r.id>>} ELSE errorLog
    /\ UNCHANGED <<rateVars, dashVars, soilVars, appAreaVars, appPlaceVars, rainFormVars, stream, mounted, edits,
                   locationType, timers, reqs, hist, issued, superseded, published>>

LandSettles == \E resp \in ReverseResponses : LandResponse(resp)

\* ------------------------------- second App: area search without abort
\* useEffect[areaInput] of the second App: the cleanup only clears the timer.
Area2Effect(v) ==
    /\ Rerun("area2", v, v, ~(Len(v) < 2), FALSE)
    /\ areaSuggestions' = IF Len(v) < 2 THEN <<>> ELSE areaSuggestions

Area2Edit ==
    /\ stream = "area2" /\ mounted /\ edits < MaxEdits
    /\ \E v \in Keystrokes(areaInput) :
        /\ areaInput' = v
        /\ Area2Effect(v)
    /\ edits' = edits + 1
    /\ UNCHANGED <<dashVars, soilVars, landingVars, rateVars, rainFormVars, stream, mounted, appPlaceVars, revReqs, errorLog,
                   issued, published>>

Area2TimerFire ==
    /\ stream = "area2" /\ mounted
    /\ \E t \in timers["area2"] : Send("area2", t)
    /\ UNCHANGED <<dashVars, soilVars, landingVars, rateVars, rainFormVars, stream, mounted, edits, appAreaVars, appPlaceVars,
                   revReqs, errorLog, hist, superseded, published>>

\* The fetch settles: whatever parses is stored, the status is not looked at; a
\* network error or a payload that does not parse is logged.
Area2Response(resp) ==
    /\ stream = "area2" /\ mounted
    /\ \E r \in reqs["area2"] :
        /\ reqs' = [reqs EXCEPT !["area2"] = @ \ {r}]
        /\ areaSuggestions' = IF resp.json THEN resp.body ELSE areaSuggestions
        /\ published' = IF resp.json
                        THEN [published EXCEPT !["area2"] = r.ver] ELSE published
        /\ errorLog' = IF resp.json THEN errorLog ELSE errorLog \cup {<<"area2", r.ver>>}
    /\ UNCHANGED <<dashVars, soilVars, landingVars, rateVars, rainFormVars, stream, mounted, edits, areaInput, appPlaceVars,
                   timers, revReqs, hist, issued, superseded>>

Area2Settles == \E resp \in SearchResponses : Area2Response(resp)

\* ------------------------- RainForm / CropPlanning: location search
\* NominatimGeocodingService.formatLocationName
FormatLocationName(item) ==
    LET name == item.name
        place == IF item.city # <<>> THEN <<item.city>>
                 ELSE IF item.town # <<>> THEN <<item.town>>
                 ELSE IF item.village # <<>> THEN <<item.village>>
                 ELSE <<>>
        parts == place \o (IF item.state # <<>> THEN <<item.state>> ELSE <<>>)
                       \o (IF item.country # <<>> THEN <<item.country>> ELSE <<>>)
        Join[i \in 0..Len(parts)] ==
            IF i = 0 THEN <<>>
            ELSE IF i = 1 THEN parts[1]
            ELSE Join[i - 1] \o <<",", " ">> \o parts[i]
    IN  IF name # <<>> /\ name # item.city /\ name # item.town /\ name # item.village
        THEN name
        ELSE IF Len(parts) > 0 THEN Join[Len(parts)]
        ELSE IF name # <<>> THEN name
        ELSE <<"U", "n", "k", "n", "o", "w", "n">>

\* data.map(...) of searchLocation
ToResult(item) ==
    [name |-> FormatLocationName(item), display_name |-> item.display_name,
     lat |-> ParseFloat(item.lat), lon |-> ParseFloat(item.lon),
     importance |-> item.importance]

\* .sort((a, b) => b.importance - a.importance): stable, descending
RECURSIVE InsertByImportance(_, _)
InsertByImportance(sorted, x) ==
    IF sorted = <<>> THEN <<x>>
    ELSE IF Head(sorted).importance >= x.importance
         THEN <<Head(sorted)>> \o InsertByImportance(Tail(sorted), x)
         ELSE <<x>> \o sorted

RECURSIVE SortByImportance(_)
SortByImportance(items) ==
    IF items = <<>> THEN <<>>
    ELSE InsertByImportance(SortByImportance(SubSeq(items, 1, Len(items) - 1)),
                            items[Len(items)])

SearchResultsOf(data) == SortByImportance([i \in 1..Len(data) |-> ToResult(data[i])])

\* searchLocation returns [] without a request for a query this short.
ServiceBelowThreshold(q) == q = <<>> \/ Len(Trim(q)) < 2

\* The debounce effect's own check before it calls handleSearch.
LocBelowThreshold(q) == ~(Len(q) >= 2)

\* useEffect[searchQuery]: the cleanup clears the timer, a new one is always set.
LocEffect(v) == Rerun("loc", v, v, TRUE, FALSE)

\* onChange of the search input.
LocEdit ==
    /\ stream = "loc" /\ mounted /\ edits < MaxEdits
    /\ \E v \in Keystrokes(searchQuery) :
        /\ searchQuery' = v
        /\ LocEffect(v)
    /\ edits' = edits + 1
    /\ UNCHANGED <<submitVars, dashVars, soilVars, landingVars, rateVars, appAreaVars, appPlaceVars, stream, mounted, searchResults,
                   showSearchResults, isSearching, searchError, lat, lon,
                   locationName, lastRequestTime, waiting, revReqs, errorLog,
                   issued, published>>

\* The 500 ms timer fires on a query too short for handleSearch: nothing happens.
LocTimerIdle ==
    /\ stream = "loc" /\ mounted
    /\ \E t \in timers["loc"] :
        /\ LocBelowThreshold(t.q)
        /\ timers' = [timers EXCEPT !["loc"] = @ \ {t}]
    /\ UNCHANGED <<dashVars, soilVars, landingVars, rateVars, appAreaVars, appPlaceVars, rainFormVars, stream, mounted, edits,
                   reqs, revReqs, errorLog, hist, issued, superseded, published>>

\* The timer fires and handleSearch runs up to its await; searchLocation answers
\* [] at once for a query that trims below two characters.
LocSearchShort ==
    /\ stream = "loc" /\ mounted
    /\ \E t \in timers["loc"] :
        /\ ~LocBelowThreshold(t.q) /\ ServiceBelowThreshold(t.q)
        /\ timers' = [timers EXCEPT !["loc"] = @ \ {t}]
        /\ searchQuery' = t.q
        /\ published' = [published EXCEPT !["loc"] = t.ver]
    /\ searchError' = "null"
    /\ searchResults' = <<>>
    /\ showSearchResults' = TRUE
    /\ isSearching' = FALSE
    /\ UNCHANGED <<submitVars, dashVars, soilVars, landingVars, rateVars, appAreaVars, appPlaceVars, stream, mounted, edits, lat, lon,
                   locationName, lastRequestTime, waiting, reqs, revReqs, errorLog,
                   hist, issued, superseded>>

\* The timer fires and handleSearch calls searchLocation, which sends the request
\* at once, or sleeps first when the last response is less than requestDelay old.
LocSearch ==
    /\ stream = "loc" /\ mounted
    /\ \E t \in timers["loc"], sleeps \in BOOLEAN :
        /\ ~LocBelowThreshold(t.q) /\ ~ServiceBelowThreshold(t.q)
        /\ sleeps => lastRequestTime # 0
        /\ searchQuery' = t.q
        /\ IF sleeps
           THEN /\ timers' = [timers EXCEPT !["loc"] = @ \ {t}]
                /\ waiting' = waiting \cup {t}
                /\ UNCHANGED <<reqs, issued>>
           ELSE /\ Send("loc", t)
                /\ UNCHANGED waiting
    /\ searchError' = "null"
    /\ isSearching' = TRUE
    /\ UNCHANGED <<submitVars, dashVars, soilVars, landingVars, rateVars, appAreaVars, appPlaceVars, stream, mounted, edits, searchResults,
                   showSearchResults, lat, lon, locationName, lastRequestTime,
                   revReqs, errorLog, hist, superseded, published>>

\* The rate-limit delay of a sleeping call is over: its request is sent.
LocDelayElapsed ==
    /\ stream = "loc" /\ mounted
    /\ \E t \in waiting :
        /\ waiting' = waiting \ {t}
        /\ reqs' = [reqs EXCEPT !["loc"] = @ \cup {t}]
        /\ issued' = [issued EXCEPT !["loc"] = @ \cup {t}]
    /\ UNCHANGED <<submitVars, dashVars, soilVars, landingVars, rateVars, appAreaVars, appPlaceVars, stream, mounted, edits, searchQuery,
                   searchResults, showSearchResults, isSearching, searchError, lat,
                   lon, locationName, lastRequestTime, timers, revReqs, errorLog,
                   hist, superseded, published>>

\* The request settles and handleSearch resumes: results on success, else the
\* error with the results emptied; finally the searching flag is cleared.
LocResponse(resp) ==
    /\ stream = "loc" /\ mounted
    /\ \E r \in reqs["loc"] :
        /\ reqs' = [reqs EXCEPT !["loc"] = @ \ {r}]
        /\ published' = [published EXCEPT !["loc"] = r.ver]
        /\ IF resp.kind = "ok"
           THEN /\ lastRequestTime' = 1
                /\ searchResults' = SearchResultsOf(resp.body)
                /\ showSearchResults' = TRUE
                /\ searchError' = searchError
                /\ errorLog' = errorLog
           ELSE /\ lastRequestTime' = lastRequestTime
                /\ searchResults' = <<>>
                /\ showSearchResults' = FALSE
                /\ searchError' = "Failed to search location. Please try again."
                /\ errorLog' = errorLog \cup {<<"loc", r.ver>>}
    /\ isSearching' = FALSE
    /\ UNCHANGED <<submitVars, dashVars, soilVars, landingVars, rateVars, appAreaVars, appPlaceVars, stream, mounted, edits, searchQuery,
                   lat, lon, locationName, waiting, timers, revReqs, hist, issued,
                   superseded>>

LocSettles == \E resp \in SearchResponses : LocResponse(resp)

\* selectSearchResult: a click on an entry of the results dropdown.
SelectSearchResult ==
    /\ stream = "loc" /\ mounted /\ edits < MaxEdits
    /\ showSearchResults
    /\ \E i \in 1..Len(searchResults) :
        LET location == searchResults[i] IN
        /\ lat' = NumberToString(location.lat)
        /\ lon' = NumberToString(location.lon)
        /\ locationName' = location.name
        /\ searchQuery' = location.name
        /\ IF location.name # searchQuery
           THEN LocEffect(location.name)
           ELSE UNCHANGED <<timers, reqs, hist, superseded>>
    /\ showSearchResults' = FALSE
    /\ searchError' = "null"
    /\ edits' = edits + 1
    /\ UNCHANGED <<submitVars, dashVars, soilVars, landingVars, rateVars, appAreaVars, appPlaceVars, stream, mounted, searchResults,
                   isSearching, lastRequestTime, waiting, revReqs, errorLog, issued,
                   published>>

\* ------------------------- RainForm: the location search under the clock
\* Time is counted in units of 500 ms: the debounce of the search effect and
\* the requestDelay of NominatimGeocodingService. Date.now() is far more than
\* requestDelay past the epoch when the form is created.
Debounce == 1
RequestDelay == 2
MaxNow == 6

rateFrame ==
    <<dashVars, soilVars, landingVars, appAreaVars, appPlaceVars, submitVars, stream,
      mounted, lat, lon, locationName, waiting, timers, reqs, revReqs, hist, issued,
      superseded, published>>

\* Time passes.
ClockTick ==
    /\ stream = "rate" /\ dateNow < MaxNow
    /\ dateNow' = dateNow + 1
    /\ UNCHANGED <<rateFrame, edits, searchQuery, searchResults, showSearchResults,
                   isSearching, searchError, lastRequestTime, errorLog, searchTimer,
                   searchCalls, sendLog>>

\* onChange of the search input: the effect's cleanup clears the timer and a
\* new one is set, due 500 ms later.
TimedEdit ==
    /\ stream = "rate" /\ mounted /\ edits < MaxEdits
    /\ \E v \in Keystrokes(searchQuery) :
        /\ searchQuery' = v
        /\ searchTimer' = {[due |-> dateNow + Debounce, q |-> v]}
    /\ edits' = edits + 1
    /\ UNCHANGED <<rateFrame, searchResults, showSearchResults, isSearching, searchError,
                   lastRequestTime, errorLog, dateNow, searchCalls, sendLog>>

\* The timer is due on a query too short for handleSearch.
TimedTimerIdle ==
    /\ stream = "rate" /\ mounted
    /\ \E t \in searchTimer :
        /\ dateNow >= t.due /\ LocBelowThreshold(t.q)
        /\ searchTimer' = {}
    /\ UNCHANGED <<rateFrame, edits, searchQuery, searchResults, showSearchResults,
                   isSearching, searchError, lastRequestTime, errorLog, dateNow,
                   searchCalls, sendLog>>

\* The timer is due on a query that trims below two characters: searchLocation
\* answers [] without a request.
TimedSearchShort ==
    /\ stream = "rate" /\ mounted
    /\ \E t \in searchTimer :
        /\ dateNow >= t.due /\ ~LocBelowThreshold(t.q) /\ ServiceBelowThreshold(t.q)
        /\ searchTimer' = {}
    /\ searchError' = "null"
    /\ searchResults' = <<>>
    /\ showSearchResults' = TRUE
    /\ isSearching' = FALSE
    /\ UNCHANGED <<rateFrame, edits, searchQuery, lastRequestTime, errorLog, dateNow,
                   searchCalls, sendLog>>

\* searchLocation up to its first await: the request is sent at once, or the
\* call sleeps for what is left of requestDelay since lastRequestTime.
SearchLocationCall ==
    LET timeSinceLastRequest == dateNow - lastRequestTime IN
    IF timeSinceLastRequest < RequestDelay
    THEN /\ searchCalls' = Append(searchCalls,
                [phase |-> "sleep", wake |-> dateNow + (RequestDelay - timeSinceLastRequest)])
         /\ UNCHANGED sendLog
    ELSE /\ searchCalls' = Append(searchCalls, [phase |-> "fetch", wake |-> dateNow])
         /\ sendLog' = Append(sendLog, dateNow)

\* The timer is due and handleSearch calls searchLocation.
TimedSearch ==
    /\ stream = "rate" /\ mounted
    /\ \E t \in searchTimer :
        /\ dateNow >= t.due /\ ~LocBelowThreshold(t.q) /\ ~ServiceBelowThreshold(t.q)
        /\ searchTimer' = {}
    /\ searchError' = "null"
    /\ isSearching' = TRUE
    /\ SearchLocationCall
    /\ UNCHANGED <<rateFrame, edits, searchQuery, searchResults, showSearchResults,
                   lastRequestTime, errorLog, dateNow>>

\* The sleep of a call is over: its request is sent.
TimedDelayElapsed ==
    /\ stream = "rate" /\ mounted
    /\ \E i \in 1..Len(searchCalls) :
        /\ searchCalls[i].phase = "sleep" /\ dateNow >= searchCalls[i].wake
        /\ searchCalls' = [searchCalls EXCEPT ![i].phase = "fetch"]
    /\ sendLog' = Append(sendLog, dateNow)
    /\ UNCHANGED <<rateFrame, edits, searchQuery, searchResults, showSearchResults,
                   isSearching, searchError, lastRequestTime, errorLog, dateNow, searchTimer>>

\* The request of a call settles: lastRequestTime is set once the answer is
\* parsed, and handleSearch resumes.
TimedResponse(resp) ==
    /\ stream = "rate" /\ mounted
    /\ \E i \in 1..Len(searchCalls) :
        /\ searchCalls[i].phase = "fetch"
        /\ searchCalls' = [j \in 1..(Len(searchCalls) - 1) |->
                                IF j < i THEN searchCalls[j] ELSE searchCalls[j + 1]]
    /\ IF resp.kind = "ok"
       THEN /\ lastRequestTime' = dateNow
            /\ searchResults' = SearchResultsOf(resp.body)
            /\ showSearchResults' = TRUE
            /\ UNCHANGED <<searchError, errorLog>>
       ELSE /\ searchResults' = <<>>
            /\ showSearchResults' = FALSE
            /\ searchError' = "Failed to search location. Please try again."
            /\ errorLog' = errorLog \cup {<<"loc", 0>>}
            /\ UNCHANGED lastRequestTime
    /\ isSearching' = FALSE
    /\ UNCHANGED <<rateFrame, edits, searchQuery, dateNow, searchTimer, sendLog>>

TimedSettles == \E resp \in SearchResponses : TimedResponse(resp)

\* ------------------------------------------------ RainForm: handleSubmit
\* format(new Date(), 'yyyy-MM-dd') at the time the form is created.
Today == "2024-03-15"

\* No handleSubmit yet.
NoSubmit ==
    [lat |-> "", lon |-> "", date |-> "", alert |-> "", called |-> FALSE, args |-> <<>>,
     after |-> <<>>]

\* What the number inputs for latitude and longitude, and the date input, hold.
FormLatTexts == {"", "10", "90", "-90", "-91", "200"}
FormLonTexts == {"", "20", "180", "-180", "181", "200"}
FormDates == {"", "2024-03-15", "2024-07-04"}

\* x < n and x > n for a JavaScript number x and a whole n; false for NaN.
LessThan(x, n) == NumberIsFinite(x) /\ x.v < n
GreaterThan(x, n) == x = Infinity \/ (NumberIsFinite(x) /\ x.v > n)

\* The alert handleSubmit returns with, or "" when every test passes.
SubmitAlertNoLongitudeTest(la, lo, d) ==
    IF NumberIsNaN(la) \/ NumberIsNaN(lo)
    THEN "Please enter valid latitude and longitude values or use geolocation"
    ELSE IF LessThan(la, -90) \/ GreaterThan(la, 90)
    THEN "Latitude must be between -90 and 90"
    ELSE IF d = "" THEN "Please select a date"
    ELSE ""
SubmitAlert(la, lo, d) ==
    IF NumberIsNaN(la) \/ NumberIsNaN(lo)
    THEN "Please enter valid latitude and longitude values or use geolocation"
    ELSE IF LessThan(la, -90) \/ GreaterThan(la, 90)
    THEN "Latitude must be between -90 and 90"
    ELSE IF LessThan(lo, -180) \/ GreaterThan(lo, 180)
    THEN "Longitude must be between -180 and 180"
    ELSE IF d = "" THEN "Please select a date"
    ELSE ""

formFrame ==
    <<dashVars, soilVars, landingVars, rateVars, appAreaVars, appPlaceVars, stream, mounted,
      searchQuery, searchResults, showSearchResults, isSearching, searchError,
      locationName, lastRequestTime, waiting, timers, reqs, revReqs, errorLog, hist,
      issued, superseded, published>>

\* onChange of the latitude, longitude and date inputs.
SetLat ==
    /\ stream = "form" /\ mounted /\ edits < MaxEdits
    /\ \E t \in FormLatTexts \ {lat} : lat' = t
    /\ edits' = edits + 1
    /\ UNCHANGED <<formFrame, lon, date, lastSubmit>>

SetLon ==
    /\ stream = "form" /\ mounted /\ edits < MaxEdits
    /\ \E t \in FormLonTexts \ {lon} : lon' = t
    /\ edits' = edits + 1
    /\ UNCHANGED <<formFrame, lat, date, lastSubmit>>

SetDate ==
    /\ stream = "form" /\ mounted /\ edits < MaxEdits
    /\ \E t \in FormDates \ {date} : date' = t
    /\ edits' = edits + 1
    /\ UNCHANGED <<formFrame, lat, lon, lastSubmit>>

\* handleSubmit: the form is submitted.
HandleSubmit ==
    /\ stream = "form" /\ mounted
    /\ UNCHANGED <<formFrame, lat, lon, date, edits>>
    /\ LET la == ParseFloat(lat)
           lo == ParseFloat(lon)
           alert == SubmitAlert(la, lo, date)
       IN  lastSubmit' =
               [lat |-> lat, lon |-> lon, date |-> date, alert |-> alert,
                called |-> alert = "",
                args |-> IF alert = "" THEN <<la, lo, date>> ELSE <<>>,
                after |-> <<lat', lon', date'>>]

\* ------------------------------------------------ App: fetchSoilType
\* Payloads of the classification query.
PrimaryPayloads ==
    {[USDA_TEXTURE_CLASS |-> "", usda_texture_class |-> "", texture_class |-> ""],
     [USDA_TEXTURE_CLASS |-> "Clay", usda_texture_class |-> "", texture_class |-> ""],
     [USDA_TEXTURE_CLASS |-> "", usda_texture_class |-> "Silt Loam", texture_class |-> ""],
     [USDA_TEXTURE_CLASS |-> "", usda_texture_class |-> "", texture_class |-> "Sand"]}

PrimaryResponses ==
    {[kind |-> "ok", json |-> TRUE, body |-> b] : b \in PrimaryPayloads}
        \cup {[kind |-> k, json |-> FALSE, body |-> CHOOSE b \in PrimaryPayloads :
                    b.USDA_TEXTURE_CLASS = "" /\ b.usda_texture_class = ""
                        /\ b.texture_class = ""] : k \in {"ok", "http", "net"}}

\* Sand and clay values of the property query, on and around the table's limits.
PctValues ==
    {0, 5, 9, 10, 11, 15, 16, 26, 27, 30, 39, 40, 45, 46, 52, 53, 69, 70, 80, 84, 85, 100}

\* d?.properties?.sand?.values?.[0]?.value: a number, or nothing usable.
RawValues == {[t |-> "num", v |-> n] : n \in PctValues} \cup {[t |-> "none", v |-> 0]}

FallbackResponses ==
    {[kind |-> "ok", json |-> TRUE, sand |-> x, clay |-> y] : x, y \in RawValues}
        \cup {[kind |-> k, json |-> FALSE, sand |-> [t |-> "none", v |-> 0],
               clay |-> [t |-> "none", v |-> 0]] : k \in {"ok", "http", "net"}}

\* j?.USDA_TEXTURE_CLASS || j?.usda_texture_class || j?.texture_class || ''
\* after a success status; '' after any other outcome of the primary query.
PrimaryLabelFirstFieldOnly(resp) ==
    IF resp.kind = "ok" /\ resp.json THEN resp.body.USDA_TEXTURE_CLASS ELSE ""
PrimaryLabel(resp) ==
    IF resp.kind = "ok" /\ resp.json
    THEN IF resp.body.USDA_TEXTURE_CLASS # "" THEN resp.body.USDA_TEXTURE_CLASS
         ELSE IF resp.body.usda_texture_class # "" THEN resp.body.usda_texture_class
         ELSE resp.body.texture_class
    ELSE ""

\* The decision table of the fallback, first match wins.
ClassifyTextureSandFirst(sand, clay) ==
    IF clay >= 40 THEN "Clay"
    ELSE IF clay >= 27 /\ sand <= 45 THEN "Clay Loam"
    ELSE IF sand >= 85 /\ clay < 10 THEN "Sand"
    ELSE IF sand >= 70 /\ clay <= 15 THEN "Sandy Loam"
    ELSE IF clay <= 10 /\ sand <= 52 THEN "Silt Loam"
    ELSE "Loam"
ClassifyTextureLabelsSwapped(sand, clay) ==
    IF clay >= 40 THEN "Clay"
    ELSE IF clay >= 27 /\ sand <= 45 THEN "Clay Loam"
    ELSE IF sand >= 70 /\ clay <= 15 THEN "Sand"
    ELSE IF sand >= 85 /\ clay < 10 THEN "Sandy Loam"
    ELSE IF clay <= 10 /\ sand <= 52 THEN "Silt Loam"
    ELSE "Loam"
ClassifyTexture(sand, clay) ==
    IF clay >= 40 THEN "Clay"
    ELSE IF clay >= 27 /\ sand <= 45 THEN "Clay Loam"
    ELSE IF sand >= 70 /\ clay <= 15 THEN "Sandy Loam"
    ELSE IF sand >= 85 /\ clay < 10 THEN "Sand"
    ELSE IF clay <= 10 /\ sand <= 52 THEN "Silt Loam"
    ELSE "Loam"

\* Number(value ?? NaN) is not NaN.
IsNumber(raw) == raw.t = "num"

\* resolvedType after the property query: the table's label for numeric sand and
\* clay under a success status, else ''.
FallbackLabel(resp) ==
    IF resp.kind = "ok" /\ resp.json /\ IsNumber(resp.sand) /\ IsNumber(resp.clay)
    THEN ClassifyTexture(resp.sand.v, resp.clay.v)
    ELSE ""

\* err.message of what the fallback path throws.
FallbackError(resp) ==
    IF resp.kind = "net" THEN "Failed to fetch"
    ELSE IF resp.kind = "ok" /\ ~resp.json THEN "Unexpected token"
    ELSE "No soil type available"

\* How the property query ended: a non-success status, a rejected fetch, a body
\* that is not JSON, a sand or clay value that is not a number, or both numeric.
SecondaryClass(resp) ==
    IF resp.kind # "ok" THEN resp.kind
    ELSE IF ~resp.json THEN "badjson"
    ELSE IF resp.sand.t = "num" /\ resp.clay.t = "num" THEN "numeric"
    ELSE "nonnumeric"

\* a || b on strings
Or(a, b) == IF a # "" THEN a ELSE b

\* null, for cropSuccess; cropDetails null is NoResult.
Null == [k |-> "null", v |-> 0]
NoResult == [score |-> NaN, confidence |-> 0, factors |-> <<>>, month |-> 0, trend |-> <<>>]
NoInput == [lat |-> NaN, lon |-> NaN, date |-> "", crop |-> "", soil |-> ""]

\* fetchCropSuccess(la, lo, dateStr, crop, areaName) up to its await: the panel is
\* reset and the call waits 200 ms.  What it will pass to the engine is fixed
\* now: its arguments, and cropInput, cropType and soilType of the render that
\* made the call (soil).
FetchCropSuccessCall(la, lo, dateStr, crop, soil, trig) ==
    /\ cropSuccessLoading' = TRUE
    /\ cropSuccessError' = ""
    /\ cropSuccess' = Null
    /\ cropDetails' = NoResult
    /\ cropTrend' = <<>>
    /\ scoreJobs' = Append(scoreJobs,
            [lat |-> la, lon |-> lo, date |-> dateStr,
             crop |-> Or(crop, Or(cropInput', cropType')), soil |-> soil,
             trig |-> trig, sub |-> submissions'])

\* The dependency list of the recompute effect.
DepsWithoutSoilType ==
    <<showDashboard, latitude, longitude, cropInput, cropType, dashboardDate, dateInput>>
Deps ==
    <<showDashboard, latitude, longitude, soilType, cropInput, cropType, dashboardDate,
      dateInput>>

\* The recompute effect after a render in which a dependency changed; it calls
\* fetchCropSuccess when the dashboard is shown and both coordinates parse.
RecomputeEffect(trig) ==
    IF /\ Deps' # Deps
       /\ showDashboard'
       /\ ~NumberIsNaN(ParseFloat(latitude')) /\ ~NumberIsNaN(ParseFloat(longitude'))
    THEN /\ FetchCropSuccessCall(ParseFloat(latitude'), ParseFloat(longitude'),
                                 Or(dashboardDate', dateInput'), Or(cropInput', cropType'),
                                 soilType', trig)
         /\ invoked' = invoked \cup
                {[fn |-> "score", lat |-> ParseFloat(latitude'), lon |-> ParseFloat(longitude')]}
    ELSE UNCHANGED scoreVars

\* fetchSoilType(la, lo) up to its first await: the flags are reset and the
\* classification query is sent.
FetchSoilTypeCallKeepsType(la, lo) ==
    /\ soilCalls < MaxAttempts
    /\ soilAttempts' = soilAttempts \cup {[id |-> soilCalls + 1, phase |-> "primary"]}
    /\ soilCalls' = soilCalls + 1
    /\ soilTypeLoading' = TRUE
    /\ soilTypeError' = ""
    /\ UNCHANGED <<soilType, soilSource>>
    /\ soilWriter' = soilCalls + 1
    /\ soilTrace' = Append(soilTrace,
            [lat |-> la, lon |-> lo, secondary |-> "none", writes |-> 0,
             status |-> "running"])
FetchSoilTypeCall(la, lo) ==
    /\ soilCalls < MaxAttempts
    /\ soilAttempts' = soilAttempts \cup {[id |-> soilCalls + 1, phase |-> "primary"]}
    /\ soilCalls' = soilCalls + 1
    /\ soilTypeLoading' = TRUE
    /\ soilTypeError' = ""
    /\ soilType' = ""
    /\ soilSource' = [via |-> "none", sand |-> 0, clay |-> 0]
    /\ soilWriter' = soilCalls + 1
    /\ soilTrace' = Append(soilTrace,
            [lat |-> la, lon |-> lo, secondary |-> "none", writes |-> 0,
             status |-> "running"])

\* A call of fetchSoilType on its own.
FetchSoilType ==
    /\ FetchSoilTypeCall(Num(10), Num(20))
    /\ invoked' = invoked \cup {[fn |-> "soil", lat |-> Num(10), lon |-> Num(20)]}
    /\ UNCHANGED <<landingVars, rateVars, appAreaVars, appPlaceVars, rainFormVars, stream,
                   mounted, edits, timers, reqs, revReqs, errorLog, hist,
                   issued, superseded, published>>
    /\ UNCHANGED <<dashInputs, showDashboard, isRevealing, revealTimeout, submissions,
                   engineVars, cropSuccessLoading, cropSuccessError, cropSuccess,
                   cropDetails, cropTrend, scoreJobs>>

\* The classification query settles: with a label the attempt resolves, without
\* one the property query is sent.
SoilPrimaryResponse(resp) ==
    /\ \E a \in {x \in soilAttempts : x.phase = "primary"} :
        IF PrimaryLabel(resp) # ""
        THEN /\ soilAttempts' = soilAttempts \ {a}
             /\ soilType' = PrimaryLabel(resp)
             /\ soilTypeLoading' = FALSE
             /\ soilSource' = [via |-> "primary", sand |-> 0, clay |-> 0]
             /\ soilWriter' = a.id
             /\ soilTrace' = [soilTrace EXCEPT ![a.id].writes = @ + 1,
                                               ![a.id].status = "resolved"]
        ELSE /\ soilAttempts' = (soilAttempts \ {a}) \cup {[a EXCEPT !.phase = "fallback"]}
             /\ UNCHANGED <<soilType, soilTypeLoading, soilSource, soilWriter, soilTrace>>
    /\ UNCHANGED <<landingVars, rateVars, appAreaVars, appPlaceVars, rainFormVars, stream,
                   mounted, edits, soilTypeError, soilCalls, timers, reqs, revReqs,
                   errorLog, hist, issued, superseded, published>>
    /\ UNCHANGED <<dashInputs, showDashboard, isRevealing, revealTimeout, submissions,
                   engineVars>>
    /\ RecomputeEffect("soil")

SoilPrimarySettles == \E resp \in PrimaryResponses : SoilPrimaryResponse(resp)

\* The property query settles: the table's label is set, or the error; finally
\* the loading flag is cleared.
SoilFallbackResponseHangsOnFailure(resp) ==
    /\ \E a \in {x \in soilAttempts : x.phase = "fallback"} :
        IF FallbackLabel(resp) # ""
        THEN /\ soilAttempts' = soilAttempts \ {a}
             /\ soilWriter' = a.id
             /\ soilTrace' = [soilTrace EXCEPT ![a.id].secondary = SecondaryClass(resp),
                                               ![a.id].writes = @ + 1,
                                               ![a.id].status = "resolved"]
             /\ soilType' = FallbackLabel(resp)
             /\ soilSource' =
                    [via |-> "table", sand |-> resp.sand.v, clay |-> resp.clay.v]
             /\ soilTypeLoading' = FALSE
        ELSE /\ soilAttempts' = (soilAttempts \ {a}) \cup {[a EXCEPT !.phase = "hung"]}
             /\ UNCHANGED <<soilWriter, soilTrace, soilType, soilSource, soilTypeLoading>>
    /\ UNCHANGED <<landingVars, rateVars, appAreaVars, appPlaceVars, rainFormVars, stream,
                   mounted, edits, soilCalls, soilTypeError, timers, reqs, revReqs,
                   errorLog, hist, issued, superseded, published>>
    /\ UNCHANGED <<dashInputs, showDashboard, isRevealing, revealTimeout, submissions,
                   engineVars>>
    /\ RecomputeEffect("soil")
SoilFallbackResponse(resp) ==
    /\ \E a \in {x \in soilAttempts : x.phase = "fallback"} :
        /\ soilAttempts' = soilAttempts \ {a}
        /\ soilWriter' = a.id
        /\ soilTrace' =
                [soilTrace EXCEPT
                    ![a.id].secondary = SecondaryClass(resp),
                    ![a.id].writes = IF FallbackLabel(resp) # "" THEN @ + 1 ELSE @,
                    ![a.id].status = IF FallbackLabel(resp) # "" THEN "resolved"
                                     ELSE "failed"]
    /\ IF FallbackLabel(resp) # ""
       THEN /\ soilType' = FallbackLabel(resp)
            /\ soilSource' = [via |-> "table", sand |-> resp.sand.v, clay |-> resp.clay.v]
            /\ UNCHANGED soilTypeError
       ELSE /\ soilTypeError' = FallbackError(resp)
            /\ UNCHANGED <<soilType, soilSource>>
    /\ soilTypeLoading' = FALSE
    /\ UNCHANGED <<landingVars, rateVars, appAreaVars, appPlaceVars, rainFormVars, stream,
                   mounted, edits, soilCalls, timers, reqs, revReqs, errorLog, hist,
                   issued, superseded, published>>
    /\ UNCHANGED <<dashInputs, showDashboard, isRevealing, revealTimeout, submissions,
                   engineVars>>
    /\ RecomputeEffect("soil")

SoilFallbackSettles == \E resp \in FallbackResponses : SoilFallbackResponse(resp)

\* One response of the property query for each way it can end, and a second
\* numeric one.
FallbackResponsesByKind ==
    {resp \in FallbackResponses :
        \/ ~resp.json
        \/ resp.sand.t = "none" /\ resp.clay = [t |-> "num", v |-> 5]
        \/ resp.sand = [t |-> "num", v |-> 80] /\ resp.clay \in {[t |-> "num", v |-> 5],
                                                                   [t |-> "num", v |-> 45]}}
SoilFallbackSettlesByKind ==
    \E resp \in FallbackResponsesByKind : SoilFallbackResponse(resp)

\* ----------------------------------- App: computeCropSuccessDetailed
\* Fractions are carried in thousandths: 50.5 is 50500.
\* 1000 * Math.cos(d * Math.PI / 180) and 1000 * Math.sin(d * Math.PI / 180), to
\* the nearest whole, for the whole degrees that occur.
Cos1000(d) ==
    CASE d = -180 -> -1000 [] d = -91 -> -17 [] d = -90 -> 0 [] d = -45 -> 707
      [] d = -15 -> 966 [] d = -14 -> 970 [] d = -5 -> 996 [] d = 0 -> 1000
      [] d = 10 -> 985 [] d = 14 -> 970 [] d = 15 -> 966 [] d = 20 -> 940
      [] d = 30 -> 866 [] d = 45 -> 707 [] d = 60 -> 500 [] d = 90 -> 0
      [] d = 180 -> -1000 [] d = 181 -> -1000 [] d = 200 -> -940
Sin1000(d) ==
    CASE d = -180 -> 0 [] d = -91 -> -1000 [] d = -90 -> -1000 [] d = -45 -> -707
      [] d = -15 -> -259 [] d = -14 -> -242 [] d = -5 -> -87 [] d = 0 -> 0
      [] d = 10 -> 174 [] d = 14 -> 242 [] d = 15 -> 259 [] d = 20 -> 342
      [] d = 30 -> 500 [] d = 45 -> 707 [] d = 60 -> 866 [] d = 90 -> 1000
      [] d = 180 -> 0 [] d = 181 -> -17 [] d = 200 -> -342

\* The characters of the crop names and soil labels that occur.
Letters(str) ==
    CASE str = "" -> <<>>
      [] str = "Rice" -> <<"R", "i", "c", "e">>
      [] str = "potato" -> <<"p", "o", "t", "a", "t", "o">>
      [] str = "peanut" -> <<"p", "e", "a", "n", "u", "t">>
      [] str = "wheat" -> <<"w", "h", "e", "a", "t">>
      [] str = "carrot" -> <<"c", "a", "r", "r", "o", "t">>
      [] str = "cotton" -> <<"c", "o", "t", "t", "o", "n">>
      [] str = "Clay" -> <<"C", "l", "a", "y">>
      [] str = "Clay Loam" -> <<"C", "l", "a", "y", " ", "L", "o", "a", "m">>
      [] str = "Sandy Loam" -> <<"S", "a", "n", "d", "y", " ", "L", "o", "a", "m">>
      [] str = "Sand" -> <<"S", "a", "n", "d">>
      [] str = "Silt Loam" -> <<"S", "i", "l", "t", " ", "L", "o", "a", "m">>
      [] str = "Loam" -> <<"L", "o", "a", "m">>

\* String.prototype.toLowerCase
ToLowerCaseSkipped(t) == t
ToLowerCase(t) ==
    [i \in 1..Len(t) |->
        CASE t[i] = "C" -> "c" [] t[i] = "L" -> "l" [] t[i] = "S" -> "s"
          [] t[i] = "R" -> "r" [] OTHER -> t[i]]

\* String.prototype.includes
Includes(t, w) == \E i \in 1..(Len(t) - Len(w) + 1) : SubSeq(t, i, i + Len(w) - 1) = w

\* The date texts that occur: none, ISO dates, and one that does not parse.
DateTexts == {"", "2024-03-15", "2024-07-04", "soon"}

\* new Date(ds).getUTCMonth() + 1, or 0 for an invalid date.
UTCMonth(ds) ==
    CASE ds = "2024-01-20" -> 1 [] ds = "2024-03-15" -> 3 [] ds = "2024-07-04" -> 7
      [] ds = "2024-10-09" -> 10 [] OTHER -> 0

\* toMonth; now is new Date().getUTCMonth() + 1 at the time of the call.
ToMonth(ds, now) ==
    IF ds = "" THEN now
    ELSE IF UTCMonth(ds) = 0 THEN now ELSE UTCMonth(ds)

\* base, in thousandths; NaN when a coordinate is not finite.
Base(la, lo) ==
    IF NumberIsFinite(la) /\ NumberIsFinite(lo)
    THEN Num(50000 + 15 * Cos1000(la.v) + 10 * Sin1000(lo.v))
    ELSE NaN

\* The seasonal bucket of a month.
SeasonMayInBoth(month) ==
    (IF month \in {3, 4, 5} THEN 6 ELSE 0) + (IF month \in {5, 6, 7, 8} THEN 2 ELSE 0)
        + (IF month \in {9, 10, 11} THEN 4 ELSE 0) - (IF month \in {12, 1, 2} THEN 3 ELSE 0)
Season(month) ==
    (IF month \in {3, 4, 5} THEN 6 ELSE 0) + (IF month \in {6, 7, 8} THEN 2 ELSE 0)
        + (IF month \in {9, 10, 11} THEN 4 ELSE 0) - (IF month \in {12, 1, 2} THEN 3 ELSE 0)

\* soil vs crop tweaks, on the lower-cased texts.
SoilAdj(cropL, soilL) ==
    IF Includes(soilL, <<"c", "l", "a", "y">>)
    THEN (IF Includes(cropL, <<"r", "i", "c", "e">>) THEN 8 ELSE 0)
            - (IF Includes(cropL, <<"c", "a", "r", "r", "o", "t">>)
                    \/ Includes(cropL, <<"p", "o", "t", "a", "t", "o">>) THEN 4 ELSE 0)
    ELSE IF Includes(soilL, <<"s", "a", "n", "d", "y">>)
    THEN (IF Includes(cropL, <<"p", "e", "a", "n", "u", "t">>)
                \/ Includes(cropL, <<"c", "o", "t", "t", "o", "n">>) THEN 6 ELSE 0)
            - (IF Includes(cropL, <<"r", "i", "c", "e">>) THEN 6 ELSE 0)
    ELSE IF Includes(soilL, <<"l", "o", "a", "m">>) THEN 5
    ELSE 0

\* Math.abs(lat) < 15 ? 4 : 0
RainProxy(la) == IF NumberIsFinite(la) /\ la.v < 15 /\ -la.v < 15 THEN 4 ELSE 0

\* x + n for a number in thousandths and whole n; NaN stays NaN.
Plus(x, n) == IF NumberIsFinite(x) THEN Num(x.v + 1000 * n) ELSE x

\* base + season + soilAdj + rainProxy
RawScore(la, lo, month, crop, soil) ==
    Plus(Base(la, lo),
         Season(month) + SoilAdj(ToLowerCase(Letters(crop)), ToLowerCase(Letters(soil)))
            + RainProxy(la))

\* clampAdj of the two clamping statements; every comparison with NaN is false.
ClampAdjUnguarded(raw) == IF NumberIsFinite(raw) THEN Num(100000 - raw.v) ELSE Num(0)
ClampAdj(raw) ==
    IF NumberIsFinite(raw) /\ raw.v > 100000 THEN Num(100000 - raw.v)
    ELSE IF NumberIsFinite(raw) /\ raw.v < 0 THEN Num(-raw.v)
    ELSE Num(0)

\* score after the two clamping statements.
ClampScoreAt90(raw) ==
    IF NumberIsFinite(raw) /\ raw.v > 90000 THEN Num(90000)
    ELSE IF NumberIsFinite(raw) /\ raw.v < 0 THEN Num(0)
    ELSE raw
ClampScore(raw) ==
    IF NumberIsFinite(raw) /\ raw.v > 100000 THEN Num(100000)
    ELSE IF NumberIsFinite(raw) /\ raw.v < 0 THEN Num(0)
    ELSE raw

\* Math.round of a number in thousandths, as a whole number.
MathRound(x) == IF NumberIsFinite(x) THEN Num((x.v + 500) \div 1000) ELSE x

\* conf, in hundredths.
ConfidenceUnclamped(la, lo, dateStr, crop, soil) ==
    50 + (IF Letters(soil) # <<>> THEN 15 ELSE 0) + (IF Letters(crop) # <<>> THEN 15 ELSE 0)
       + (IF dateStr # "" THEN 10 ELSE 0)
       + (IF NumberIsFinite(la) /\ NumberIsFinite(lo) THEN 10 ELSE 0)
ConfidenceDateParsed(la, lo, dateStr, crop, soil) ==
    LET conf == 50 + (IF Letters(soil) # <<>> THEN 15 ELSE 0)
                   + (IF Letters(crop) # <<>> THEN 15 ELSE 0)
                   + (IF UTCMonth(dateStr) # 0 THEN 10 ELSE 0)
                   + (IF NumberIsFinite(la) /\ NumberIsFinite(lo) THEN 10 ELSE 0)
        lower == IF conf < 95 THEN conf ELSE 95
    IN  IF lower > 40 THEN lower ELSE 40
Confidence(la, lo, dateStr, crop, soil) ==
    LET conf == 50 + (IF Letters(soil) # <<>> THEN 15 ELSE 0)
                   + (IF Letters(crop) # <<>> THEN 15 ELSE 0)
                   + (IF dateStr # "" THEN 10 ELSE 0)
                   + (IF NumberIsFinite(la) /\ NumberIsFinite(lo) THEN 10 ELSE 0)
        lower == IF conf < 95 THEN conf ELSE 95
    IN  IF lower > 40 THEN lower ELSE 40

\* Math.max(0, Math.min(100, s)) in thousandths; NaN stays NaN.
Clamp0To100(s) ==
    IF ~NumberIsFinite(s) THEN s
    ELSE IF s.v > 100000 THEN Num(100000)
    ELSE IF s.v < 0 THEN Num(0)
    ELSE s

\* trend: Array.from({ length: 12 }, (_, i) => ...) with m = i + 1.
TrendZeroBased(la, lo, crop, soil) ==
    [m \in 1..12 |-> Clamp0To100(RawScore(la, lo, m - 1, crop, soil))]
Trend(la, lo, crop, soil) ==
    [m \in 1..12 |-> Clamp0To100(RawScore(la, lo, m, crop, soil))]

\* computeCropSuccessDetailed(lat, lon, dateStr, crop, soil), called in month now.
ComputeCropSuccessDetailed(la, lo, dateStr, crop, soil, now) ==
    LET month == ToMonth(dateStr, now)
        base == Base(la, lo)
        raw == RawScore(la, lo, month, crop, soil)
        season == Season(month)
        soilAdj == SoilAdj(ToLowerCase(Letters(crop)), ToLowerCase(Letters(soil)))
        rainProxy == RainProxy(la)
    IN  [score |-> MathRound(ClampScore(raw)),
         confidence |-> Confidence(la, lo, dateStr, crop, soil),
         factors |->
            <<[label |-> "Coords base", value |-> MathRound(base),
               sign |-> IF NumberIsFinite(base) /\ base.v >= 50000 THEN "+" ELSE "+-"],
              [label |-> "Seasonality", value |-> Num(season),
               sign |-> IF season >= 0 THEN "+" ELSE "-"],
              [label |-> "Soil compatibility", value |-> Num(soilAdj),
               sign |-> IF soilAdj >= 0 THEN "+" ELSE "-"],
              [label |-> "Rainfall proxy", value |-> Num(rainProxy),
               sign |-> IF rainProxy >= 0 THEN "+" ELSE "-"],
              [label |-> "Clamp", value |-> MathRound(ClampAdj(raw)),
               sign |-> IF ClampAdj(raw) # Num(0) THEN "+-" ELSE ""]>>,
         month |-> month,
         trend |-> Trend(la, lo, crop, soil)]

\* The engine is called for a waiting fetchCropSuccess, or on its own.
EngineCall(in) ==
    LET out == ComputeCropSuccessDetailed(in.lat, in.lon, in.date, in.crop, in.soil,
                                          clockMonth)
    IN  /\ engineIn' = in
        /\ engineOut' = out
        /\ engineRepeat' = (engineIn = in /\ engineOut # NoResult /\ engineOut # out)

\* The months the engine is tried in: the last of each seasonal bucket, and
\* December.
ClockMonths == {2, 5, 8, 11, 12}

\* The arguments the engine is tried with on its own.
EngineInputs ==
    [lat : {Num(d) : d \in {-90, -15, -14, 0, 60, 200}} \cup {Infinity},
     lon : {Num(d) : d \in {-180, -90, 0, 90}},
     date : DateTexts,
     crop : {"", "Rice", "potato", "peanut", "carrot", "cotton"},
     soil : {"", "Clay", "Clay Loam", "Sandy Loam", "Sand", "Silt Loam", "Loam"}]

\* computeCropSuccessDetailed is called with the arguments chosen at the start.
EngineInvoke ==
    /\ stream = "score"
    /\ EngineCall(engineIn)
    /\ UNCHANGED <<dashInputs, showDashboard, isRevealing, revealTimeout, submissions,
                   scoreVars, clockMonth, ticks, soilVars, landingVars, rateVars, rainFormVars,
                   appAreaVars, appPlaceVars, stream, mounted, edits, timers, reqs,
                   revReqs, errorLog, hist, issued, superseded, published>>

\* The calendar month changes.
Tick ==
    /\ stream = "score"
    /\ ticks < MaxTicks
    /\ ticks' = ticks + 1
    /\ clockMonth' = (clockMonth % 12) + 1
    /\ UNCHANGED <<dashInputs, showDashboard, isRevealing, revealTimeout, submissions,
                   scoreVars, engineIn, engineOut, engineRepeat, soilVars, landingVars, rateVars,
                   rainFormVars, appAreaVars, appPlaceVars, stream, mounted, edits,
                   timers, reqs, revReqs, errorLog, hist, issued, superseded, published>>

\* ------------------------------------------ App: the dashboard session
\* What is unchanged by every step of the session that is not about soil.
sessionFrame ==
    <<landingVars, rateVars, rainFormVars, stream, mounted, timers, reqs, revReqs, errorLog, hist,
      issued, superseded, published, placeGeocodeLoading, placeGeocodeError, placeMatch,
      areaSuggestions, clockMonth, ticks>>

\* What the user enters in the landing form and in the dashboard.
LatitudeTexts == {"", "10", "200", "Infinity"}
LongitudeTexts == {"20"}
DateInputs == {"", "2024-03-15"}
CropTypes == {"", "Rice"}
CropInputs == {"", "potato"}
DashboardDates == {"", "2024-07-04"}

\* onChange of the landing form's latitude and longitude inputs (coordinates mode).
SetLatitude ==
    /\ stream = "dash" /\ mounted /\ edits < MaxEdits
    /\ ~showDashboard /\ locationMethod = "coordinates"
    /\ \E t \in LatitudeTexts \ {latitude} : latitude' = t
    /\ edits' = edits + 1
    /\ UNCHANGED <<sessionFrame, soilVars, dashInputs, showDashboard, isRevealing,
                   revealTimeout, submissions, engineIn, engineOut, engineRepeat,
                   longitude, placeName, locationMethod, areaInput>>
    /\ RecomputeEffect("change")

SetLongitude ==
    /\ stream = "dash" /\ mounted /\ edits < MaxEdits
    /\ ~showDashboard /\ locationMethod = "coordinates"
    /\ \E t \in LongitudeTexts \ {longitude} : longitude' = t
    /\ edits' = edits + 1
    /\ UNCHANGED <<sessionFrame, soilVars, dashInputs, showDashboard, isRevealing,
                   revealTimeout, submissions, engineIn, engineOut, engineRepeat,
                   latitude, placeName, locationMethod, areaInput>>
    /\ RecomputeEffect("change")

\* onChange of the landing form's date and crop inputs.
SetDateInput ==
    /\ stream = "dash" /\ mounted /\ edits < MaxEdits
    /\ ~showDashboard
    /\ \E t \in DateInputs \ {dateInput} : dateInput' = t
    /\ edits' = edits + 1
    /\ UNCHANGED <<sessionFrame, soilVars, cropType, cropInput, dashboardDate,
                   showDashboard, isRevealing, revealTimeout, submissions, engineIn,
                   engineOut, engineRepeat, latitude, longitude, placeName,
                   locationMethod, areaInput>>
    /\ RecomputeEffect("change")

SetCropType ==
    /\ stream = "dash" /\ mounted /\ edits < MaxEdits
    /\ ~showDashboard
    /\ \E t \in CropTypes \ {cropType} : cropType' = t
    /\ edits' = edits + 1
    /\ UNCHANGED <<sessionFrame, soilVars, dateInput, cropInput, dashboardDate,
                   showDashboard, isRevealing, revealTimeout, submissions, engineIn,
                   engineOut, engineRepeat, latitude, longitude, placeName,
                   locationMethod, areaInput>>
    /\ RecomputeEffect("change")

\* onChange of the dashboard's crop and date inputs.
SetCropInput ==
    /\ stream = "dash" /\ mounted /\ edits < MaxEdits
    /\ showDashboard
    /\ \E t \in CropInputs \ {cropInput} : cropInput' = t
    /\ edits' = edits + 1
    /\ UNCHANGED <<sessionFrame, soilVars, dateInput, cropType, dashboardDate,
                   showDashboard, isRevealing, revealTimeout, submissions, engineIn,
                   engineOut, engineRepeat, latitude, longitude, placeName,
                   locationMethod, areaInput>>
    /\ RecomputeEffect("change")

SetDashboardDate ==
    /\ stream = "dash" /\ mounted /\ edits < MaxEdits
    /\ showDashboard
    /\ \E t \in DashboardDates \ {dashboardDate} : dashboardDate' = t
    /\ edits' = edits + 1
    /\ UNCHANGED <<sessionFrame, soilVars, dateInput, cropType, cropInput,
                   showDashboard, isRevealing, revealTimeout, submissions, engineIn,
                   engineOut, engineRepeat, latitude, longitude, placeName,
                   locationMethod, areaInput>>
    /\ RecomputeEffect("change")

\* A click on an area suggestion in the dashboard: the coordinate becomes the
\* suggestion's.
PickSuggestion ==
    /\ stream = "dash" /\ mounted /\ edits < MaxEdits
    /\ showDashboard
    /\ \E i \in 1..Len(areaSuggestions) :
        LET suggestion == areaSuggestions[i] IN
        /\ areaInput' = suggestion.display_name
        /\ placeName' = suggestion.display_name
        /\ latitude' = suggestion.lat
        /\ longitude' = suggestion.lon
    /\ locationMethod' = "place"
    /\ edits' = edits + 1
    /\ UNCHANGED <<sessionFrame, soilVars, dashInputs, showDashboard, isRevealing,
                   revealTimeout, submissions, engineIn, engineOut, engineRepeat>>
    /\ RecomputeEffect("change")

\* handleLandingSearch: the Analyze button of the landing form.
HandleLandingSearch ==
    /\ stream = "dash" /\ mounted /\ ~showDashboard
    /\ submissions < MaxAttempts
    /\ submissions' = submissions + 1
    /\ UNCHANGED <<sessionFrame, dashInputs, showDashboard, engineIn, engineOut,
                   engineRepeat, latitude, longitude, placeName, locationMethod,
                   areaInput, edits>>
    /\ LET la == ParseFloat(latitude)
           lo == ParseFloat(longitude)
       IN  IF ~NumberIsNaN(la) /\ ~NumberIsNaN(lo)
           THEN /\ FetchSoilTypeCall(la, lo)
                /\ FetchCropSuccessCall(la, lo, dateInput, cropType, soilType, "analyze")
                /\ invoked' = invoked \cup {[fn |-> "soil", lat |-> la, lon |-> lo],
                                            [fn |-> "score", lat |-> la, lon |-> lo]}
           ELSE /\ soilType' = ""
                /\ soilTypeError' = ""
                /\ soilSource' = [via |-> "none", sand |-> 0, clay |-> 0]
                /\ cropSuccess' = Null
                /\ cropSuccessError' = ""
                /\ UNCHANGED <<soilTypeLoading, soilAttempts, soilCalls, soilWriter,
                               soilTrace,
                               cropSuccessLoading, cropDetails, cropTrend, scoreJobs,
                               invoked>>
    /\ isRevealing' = TRUE
    /\ revealTimeout' = TRUE

\* The 450 ms reveal timer is due once every 200 ms delay that was running when
\* it was set is over: timers fire in the order of their deadlines.
RevealDueAnytime(jobs) == TRUE
RevealDue(jobs) == jobs = <<>>

\* The reveal timer fires: the dashboard is shown.
RevealFire ==
    /\ stream = "dash" /\ mounted
    /\ revealTimeout /\ RevealDue(scoreJobs)
    /\ showDashboard' = TRUE
    /\ isRevealing' = FALSE
    /\ revealTimeout' = FALSE
    /\ UNCHANGED <<sessionFrame, soilVars, dashInputs, submissions, engineIn, engineOut,
                   engineRepeat, latitude, longitude, placeName, locationMethod,
                   areaInput, edits>>
    /\ RecomputeEffect("reveal")

\* handleCloseDashboard
HandleCloseDashboard ==
    /\ stream = "dash" /\ mounted
    /\ showDashboard
    /\ showDashboard' = FALSE
    /\ UNCHANGED <<sessionFrame, soilVars, dashInputs, isRevealing, revealTimeout,
                   submissions, engineIn, engineOut, engineRepeat, latitude, longitude,
                   placeName, locationMethod, areaInput, edits>>
    /\ RecomputeEffect("change")

\* The 200 ms delay of the oldest waiting fetchCropSuccess is over: the engine is
\* called and its result published; finally the loading flag is cleared.
FetchCropSuccessResume ==
    /\ stream = "dash" /\ mounted
    /\ scoreJobs # <<>>
    /\ LET job == Head(scoreJobs)
           in == [lat |-> job.lat, lon |-> job.lon, date |-> job.date,
                  crop |-> job.crop, soil |-> job.soil]
       IN  /\ EngineCall(in)
           /\ cropSuccess' = engineOut'.score
           /\ cropDetails' = engineOut'
           /\ cropTrend' = engineOut'.trend
    /\ cropSuccessLoading' = FALSE
    /\ scoreJobs' = Tail(scoreJobs)
    /\ UNCHANGED <<sessionFrame, soilVars, dashInputs, showDashboard, isRevealing,
                   revealTimeout, submissions, cropSuccessError, invoked,
                   latitude, longitude, placeName, locationMethod, areaInput, edits>>

\* The soil service's answers the session is followed with.
SessionPrimaryResponses ==
    {resp \in PrimaryResponses :
        resp.kind = "ok" /\ resp.json /\ resp.body.usda_texture_class = ""
            /\ resp.body.texture_class = ""}
SessionFallbackResponses ==
    {resp \in FallbackResponses :
        \/ resp.kind = "http"
        \/ resp.kind = "ok" /\ resp.json /\ resp.sand = [t |-> "num", v |-> 80]
                /\ resp.clay = [t |-> "num", v |-> 5]}

SessionSoilPrimarySettles ==
    \E resp \in SessionPrimaryResponses : SoilPrimaryResponse(resp)
SessionSoilFallbackSettles ==
    \E resp \in SessionFallbackResponses : SoilFallbackResponse(resp)

\* The component unmounts: every effect's cleanup runs.
Unmount ==
    /\ mounted
    /\ mounted' = FALSE
    /\ superseded' = [superseded EXCEPT ![stream] = @ \cup {t.ver : t \in timers[stream]}]
    /\ timers' = [timers EXCEPT ![stream] = ClearTimeout(@)]
    /\ reqs' = [reqs EXCEPT ![stream] = IF stream \in AbortStreams THEN Abort(@) ELSE @]
    /\ placeGeocodeLoading' =
            IF stream = "place" /\ reqs["place"] # {} THEN FALSE ELSE placeGeocodeLoading
    /\ placeGeocodeError' =
            IF stream = "place" /\ reqs["place"] # {}
            THEN PlaceAbortedError(placeGeocodeError) ELSE placeGeocodeError
    /\ revealTimeout' = FALSE
    /\ UNCHANGED <<dashInputs, showDashboard, isRevealing, submissions, scoreVars,
                   engineVars, soilVars, landingVars, rateVars, rainFormVars, stream, edits,
                   appAreaVars, placeName, locationMethod, placeMatch, latitude,
                   longitude, revReqs, errorLog, hist, issued, published>>

InitCommon ==
    /\ mounted = TRUE
    /\ edits = 0
    /\ IF stream = "dash"
       THEN areaInput = <<"a", "a">> /\ areaSuggestions = <<ItemB>>
       ELSE IF stream = "pick"
       THEN areaInput = <<"a", "a">> /\ areaSuggestions = <<ItemA, ItemB>>
       ELSE areaInput = <<>> /\ areaSuggestions = <<>>
    /\ placeName = <<>> /\ locationMethod = "coordinates"
    /\ placeGeocodeLoading = FALSE /\ placeGeocodeError = "" /\ placeMatch = <<>>
    /\ latitude = "" /\ longitude = ""
    /\ searchQuery = <<>> /\ searchResults = <<>> /\ showSearchResults = FALSE
    /\ isSearching = FALSE /\ searchError = "null"
    /\ lat = "" /\ lon = "" /\ locationName = <<"U", "n", "k", "n", "o", "w", "n">>
    /\ lastRequestTime = 0 /\ waiting = {}
    /\ dateNow = RequestDelay
    /\ searchTimer = (IF stream = "rate" THEN {[due |-> dateNow + Debounce, q |-> <<>>]} ELSE {})
    /\ searchCalls = <<>> /\ sendLog = <<>>
    /\ date = Today /\ lastSubmit = NoSubmit
    /\ formData = [area |-> <<>>, latitude |-> "", longitude |-> ""]
    /\ locationType \in (IF stream = "land" THEN LocationTypes ELSE {"text"})
    /\ soilType = "" /\ soilTypeError = "" /\ soilTypeLoading = FALSE
    /\ soilAttempts = {} /\ soilCalls = 0
    /\ soilSource = [via |-> "none", sand |-> 0, clay |-> 0]
    /\ soilWriter = 0 /\ soilTrace = <<>>
    /\ showDashboard = (stream = "pick") /\ isRevealing = FALSE /\ revealTimeout = FALSE
    /\ dateInput = "" /\ cropType = "" /\ cropInput = "" /\ dashboardDate = ""
    /\ cropSuccessLoading = FALSE /\ cropSuccessError = "" /\ cropSuccess = Null
    /\ cropDetails = NoResult /\ cropTrend = <<>>
    /\ scoreJobs = <<>> /\ submissions = 0 /\ invoked = {}
    /\ clockMonth \in (IF stream = "score" THEN ClockMonths ELSE {1})
    /\ ticks = 0
    /\ engineIn \in (IF stream = "score" THEN EngineInputs ELSE {NoInput}) /\ engineOut = NoResult /\ engineRepeat = FALSE
    /\ timers = [s \in Components |-> {}]
    /\ reqs = [s \in Components |-> {}]
    /\ revReqs = {}
    /\ errorLog = {}
    /\ hist = [s \in Components |-> <<>>]
    /\ issued = [s \in Components |-> {}]
    /\ superseded = [s \in Components |-> {}]
    /\ published = [s \in Components |-> 0]

InitArea == stream = "area" /\ InitCommon
NextArea == AreaEdit \/ AreaTimerFire \/ AreaSettles \/ Unmount
SpecArea == InitArea /\ [][NextArea]_vars

InitArea2 == stream = "area2" /\ InitCommon
NextArea2 == Area2Edit \/ Area2TimerFire \/ Area2Settles \/ Unmount
SpecArea2 == InitArea2 /\ [][NextArea2]_vars

InitLoc == stream = "loc" /\ InitCommon
NextLoc ==
    LocEdit \/ LocTimerIdle \/ LocSearchShort \/ LocSearch \/ LocDelayElapsed
        \/ LocSettles \/ SelectSearchResult \/ Unmount
SpecLoc == InitLoc /\ [][NextLoc]_vars

InitRate == stream = "rate" /\ InitCommon
NextRate ==
    ClockTick \/ TimedEdit \/ TimedTimerIdle \/ TimedSearchShort \/ TimedSearch
        \/ TimedDelayElapsed \/ TimedSettles
SpecRate == InitRate /\ [][NextRate]_vars

InitPlace == stream = "place" /\ InitCommon
\* The open dashboard with the suggestions of an answered area search.
InitPick == stream = "pick" /\ InitCommon
NextPick == PickSuggestionPlace \/ PlaceEdit \/ PlaceTimerFire \/ PlaceSettles
SpecPick == InitPick /\ [][NextPick]_vars
NextPlace ==
    PlaceEdit \/ SetLocationMethod \/ PlaceTimerFire \/ PlaceSettles \/ MapClick
        \/ RevSettles \/ Unmount
SpecPlace == InitPlace /\ [][NextPlace]_vars

InitSoil == stream = "soil" /\ InitCommon
NextSoil == FetchSoilType \/ SoilPrimarySettles \/ SoilFallbackSettles
SpecSoil == InitSoil /\ [][NextSoil]_vars
\* Each network call eventually returns or fails; the property query is followed
\* with one response of each kind.
InitSoilFair == InitSoil
NextSoilFair == FetchSoilType \/ SoilPrimarySettles \/ SoilFallbackSettlesByKind
SpecSoilFair ==
    /\ InitSoilFair /\ [][NextSoilFair]_vars
    /\ WF_vars(SoilPrimarySettles) /\ WF_vars(SoilFallbackSettlesByKind)

\* The scoring engine on its own.
InitScore == stream = "score" /\ InitCommon
NextScore == EngineInvoke \/ Tick
SpecScore == InitScore /\ [][NextScore]_vars

\* A dashboard session of App, within one calendar month; the area search has
\* answered before it starts.
InitDash == stream = "dash" /\ InitCommon
NextDash ==
    SetLatitude \/ SetLongitude \/ SetDateInput \/ SetCropType \/ SetCropInput
        \/ SetDashboardDate \/ PickSuggestion \/ HandleLandingSearch \/ RevealFire
        \/ HandleCloseDashboard \/ FetchCropSuccessResume
        \/ SessionSoilPrimarySettles \/ SessionSoilFallbackSettles
SpecDash == InitDash /\ [][NextDash]_vars

InitForm == stream = "form" /\ InitCommon
NextForm == SetLat \/ SetLon \/ SetDate \/ HandleSubmit
SpecForm == InitForm /\ [][NextForm]_vars

InitLand == stream = "land" /\ InitCommon
NextLand == LandMapClick \/ SetLocationType \/ LandAreaEdit \/ LandSettles \/ Unmount
SpecLand == InitLand /\ [][NextLand]_vars

\* The components with a map: App and LandingPage.
InitReverse == stream \in {"place", "land"} /\ InitCommon
NextReverse == NextPlace \/ NextLand
SpecReverse == InitReverse /\ [][NextReverse]_vars

\* Any one of the trigger streams.
InitStreams == stream \in Streams /\ InitCommon
NextStreams == NextArea \/ NextPlace \/ NextArea2 \/ NextLoc
SpecStreams == InitStreams /\ [][NextStreams]_vars

\* ================================================================ claims
\* The query a trigger value of stream s asks for.
QueryOf(s, v) == IF s = "place" THEN v[1] ELSE v

\* The latest trigger of stream s arms a timer.
Armed(s) ==
    /\ Ver(s) > 0
    /\ IF s = "place"
       THEN hist[s][Ver(s)][2] = "place" /\ ~PlaceBelowThreshold(hist[s][Ver(s)][1])
       ELSE ~AreaBelowThreshold(hist[s][Ver(s)])

\* C1: in the area-search and place-geocode streams a trigger that is replaced
\* while its timer is pending never starts a lookup; a lookup is sent for the
\* value of the trigger it belongs to, at most once per trigger; and once the
\* quiet period of the latest trigger is over, exactly its lookup was sent.  So
\* of v1, v2, v3 arriving within the quiet period only v3 is looked up.
C1_DebounceLastTriggerOnly ==
    \A s \in AbortStreams :
        /\ \A l \in issued[s] :
            /\ l.ver \notin superseded[s]
            /\ l.q = QueryOf(s, hist[s][l.ver])
        /\ \A l1, l2 \in issued[s] : l1.ver = l2.ver => l1 = l2
        /\ (mounted /\ Armed(s) /\ timers[s] = {} /\ Ver(s) \notin superseded[s])
                => \E l \in issued[s] : l.ver = Ver(s)

\* Two triggers were replaced within their quiet period and the third was looked up.
C1_Witness ==
    \E s \in AbortStreams :
        /\ Cardinality(superseded[s]) >= 2
        /\ issued[s] = {[ver |-> Ver(s), q |-> QueryOf(s, hist[s][Ver(s)])]}
        /\ \A v \in superseded[s] : v < Ver(s)

\* C2: in the streams that abort, the version of the lookup that last published
\* never goes down: a lookup of an earlier trigger writes nothing once a later
\* one has published.
C2_NoStaleWriteWithAbort ==
    [][\A s \in AbortStreams : published'[s] >= published[s]]_vars

\* A later lookup has published while an earlier one had been started.
C2_Witness ==
    \E s \in AbortStreams :
        /\ published[s] = Ver(s)
        /\ \E l \in issued[s] : l.ver < published[s]

\* C3: in the streams that only clear the timer, the version of the lookup that
\* last published never goes down.
C3_NoStaleWriteTimerOnly ==
    [][\A s \in TimerOnlyStreams : published'[s] >= published[s]]_vars

\* C4: every trigger stream has at most one request outstanding.
C4_AtMostOneActiveLookup ==
    \A s \in {"area", "place", "loc"} : Cardinality(reqs[s]) <= 1

\* C5: a step that cancels an in-flight area-search or place-geocode lookup (a
\* new effect run or the unmount) sets no error: placeGeocodeError keeps its
\* value or is cleared by the new run, and nothing is logged.
C5_CancellationIsNoError ==
    [][\A s \in AbortStreams :
        (reqs[s] # {} /\ (hist'[s] # hist[s] \/ (mounted /\ ~mounted')))
            => /\ placeGeocodeError' \in {"", placeGeocodeError}
               /\ errorLog' = errorLog]_vars

\* A place lookup was sent, is no longer in flight and never published: it was
\* cancelled.
C5_Witness ==
    /\ reqs["place"] = {}
    /\ \E l \in issued["place"] : l.ver > published["place"]

\* C6: every request sent by the area search (of either App) and by the
\* location search is for a query of at least 2 characters, and every request
\* sent by the place geocode for a name of at least 3 characters after trimming.
C6_NoRequestBelowThreshold ==
    /\ \A s \in {"area", "area2", "loc"} : \A l \in issued[s] : Len(l.q) >= 2
    /\ \A l \in issued["place"] : Len(Trim(l.q)) >= 3

\* After a lookup, the query was edited below the threshold and its quiet period
\* passed without a request.
C6_Witness ==
    \E s \in {"area", "loc"} :
        /\ stream = s /\ mounted /\ Ver(s) > 0
        /\ Len(hist[s][Ver(s)]) = 1
        /\ Cardinality(issued[s]) = 1
        /\ timers[s] = {} /\ reqs[s] = {}

\* C7: when a place lookup completes with a success status and zero candidates,
\* latitude and longitude stay, the match is cleared and "No match found" is
\* set; with at least one candidate latitude and longitude become the first
\* candidate's; a failed lookup leaves latitude and longitude alone.
C7_ZeroCandidatesKeepCoordinate ==
    [][\A resp \in SearchResponses :
        PlaceResponse(resp) =>
            IF resp.kind = "ok" /\ Len(resp.body) > 0
            THEN /\ latitude' = resp.body[1].lat
                 /\ longitude' = resp.body[1].lon
            ELSE /\ latitude' = latitude /\ longitude' = longitude
                 /\ resp.kind = "ok" =>
                        placeMatch' = <<>> /\ placeGeocodeError' = "No match found"]_vars

\* A lookup found no match while a coordinate was set, and the coordinate stayed.
C7_Witness ==
    /\ placeGeocodeError = "No match found"
    /\ latitude # "" /\ longitude # ""
    /\ placeMatch = <<>>

\* C8: a forward lookup that fails (non-success status or network error)
\* publishes an empty candidate list with an error reason, in the area search,
\* the place geocode and the location search.
C8_FailureSurfacesAsEmptyWithError ==
    [][\A resp \in SearchResponses :
        resp.kind # "ok" =>
            /\ AreaResponse(resp) => areaSuggestions' = <<>>
            /\ PlaceResponse(resp) => placeMatch' = <<>> /\ placeGeocodeError' # ""
            /\ LocResponse(resp) => searchResults' = <<>> /\ searchError' # "null"]_vars

\* A reverse lookup failed: network error, non-success status, or a payload
\* without a display name.
ReverseFailed(resp) == resp.kind # "ok" \/ resp.body # "name"

\* C9: a reverse-geocode lookup that fails leaves the place name and all other
\* session state as they were (App.reverseGeocode and
\* LandingPage.handleMapClick).
C9_ReverseFailureAbsorbed ==
    [][\A resp \in ReverseResponses :
        ReverseFailed(resp) =>
            /\ RevResponse(resp) => UNCHANGED <<appPlaceVars, appAreaVars>>
            /\ LandResponse(resp) => UNCHANGED <<formData, locationType>>]_vars

\* The attempts waiting for the property query.
InFallback == {a \in soilAttempts : a.phase = "fallback"}

\* The label shown for a measurement the table classified.
TableExample(sand, clay, label) ==
    soilSource = [via |-> "table", sand |-> sand, clay |-> clay] => soilType = label

\* C10 (as amended): when the classification query yields no label the attempt
\* goes on to the property query, and the table classifies {sand: 80, clay: 5}
\* as "Sandy Loam" and {sand: 30, clay: 45} as "Clay".
C10_FallbackTableExamples ==
    [][/\ \A resp \in PrimaryResponses :
            (SoilPrimaryResponse(resp) /\ PrimaryLabel(resp) = "")
                => Cardinality(InFallback') = Cardinality(InFallback) + 1
       /\ (TableExample(80, 5, "Sandy Loam") /\ TableExample(30, 45, "Clay"))']_vars

\* The fallback classified {sand: 80, clay: 5}.
C10_Witness ==
    /\ soilSource = [via |-> "table", sand |-> 80, clay |-> 5]
    /\ soilType = "Sandy Loam" /\ ~soilTypeLoading

\* C10 as stated: {sand: 80, clay: 5} is classified "Sand".
C10_AsStated ==
    [][(TableExample(80, 5, "Sand") /\ TableExample(30, 45, "Clay"))']_vars

\* A latitude in [-90, 90] and a longitude in [-180, 180].
ValidCoordinate(la, lo) ==
    /\ NumberIsFinite(la) /\ la.v >= -90 /\ la.v <= 90
    /\ NumberIsFinite(lo) /\ lo.v >= -180 /\ lo.v <= 180

\* The engine has returned for the arguments in engineIn.
EngineReturned == engineOut # NoResult

\* C12: for a latitude in [-90, 90] and a longitude in [-180, 180], and any date,
\* crop and soil, the engine's score is a whole number in [0, 100], its confidence
\* is in [0.40, 0.95] and its month is in [1, 12].
C12_ScoreConfidenceMonthInRange ==
    (EngineReturned /\ ValidCoordinate(engineIn.lat, engineIn.lon)) =>
        /\ NumberIsFinite(engineOut.score)
        /\ engineOut.score.v \in 0..100
        /\ engineOut.confidence \in 40..95
        /\ engineOut.month \in 1..12

\* The engine returned for a valid coordinate with crop, soil and date all given,
\* where the confidence bound of 0.95 is what limits the confidence.
C12_Witness ==
    /\ EngineReturned /\ ValidCoordinate(engineIn.lat, engineIn.lon)
    /\ engineIn.crop # "" /\ engineIn.soil # "" /\ engineIn.date # ""
    /\ engineOut.confidence = 95

\* C13: two invocations of the engine with identical arguments return identical
\* results, whenever each of them happens.
C13_Deterministic == ~engineRepeat

\* The unclamped score of the arguments in engineIn, in the month the engine used.
RawOfEngineIn ==
    RawScore(engineIn.lat, engineIn.lon, engineOut.month, engineIn.crop, engineIn.soil)

\* The value of the factor labelled "Clamp" in the engine's result.
ClampFactor == engineOut.factors[5].value

\* C14: when the unclamped score exceeds 100 the Clamp factor is the amount
\* removed and the score is 100; when it is below 0 the Clamp factor is the amount
\* removed and the score is 0; when it is within [0, 100] the Clamp factor is 0.
C14_ClampInvariant ==
    (EngineReturned /\ NumberIsFinite(RawOfEngineIn)) =>
        LET raw == RawOfEngineIn
        IN  /\ raw.v > 100000 =>
                /\ engineOut.score = Num(100)
                /\ ClampFactor = MathRound(Num(100000 - raw.v))
            /\ raw.v < 0 =>
                /\ engineOut.score = Num(0)
                /\ ClampFactor = MathRound(Num(-raw.v))
            /\ (raw.v >= 0 /\ raw.v <= 100000) =>
                /\ ClampFactor = Num(0)
                /\ engineOut.factors[5].label = "Clamp"

\* The engine returned with the highest unclamped score there is: 93, from
\* latitude 0, longitude 90, spring, rice on clay.
C14_Witness ==
    /\ EngineReturned
    /\ RawOfEngineIn = Num(93000)
    /\ engineOut.score = Num(93)
    /\ ClampFactor = Num(0)

\* C15: for every input the trend has twelve entries, each in [0, 100], entry m
\* (January is the first) being the clamped sum of the score's base, soil
\* adjustment and rainfall proxy and the seasonal bucket of month m.
C15_TrendTwelveInRange ==
    EngineReturned =>
        /\ Len(engineOut.trend) = 12
        /\ \A m \in 1..12 :
            /\ NumberIsFinite(engineOut.trend[m])
            /\ engineOut.trend[m].v >= 0 /\ engineOut.trend[m].v <= 100000
            /\ engineOut.trend[m] =
                   Clamp0To100(Plus(Base(engineIn.lat, engineIn.lon),
                                    Season(m)
                                       + SoilAdj(ToLowerCase(Letters(engineIn.crop)),
                                                 ToLowerCase(Letters(engineIn.soil)))
                                       + RainProxy(engineIn.lat)))

\* C19: when two soil classification attempts overlap, once both have finished
\* the displayed soil type and soil error are those written by the later attempt,
\* whichever responses arrive last.
C19_LaterAttemptWins ==
    (soilCalls >= 2 /\ soilAttempts = {}) => soilWriter = soilCalls

\* How many of the given conditions hold.
CountTrue(conds) == Cardinality({i \in DOMAIN conds : conds[i]})

\* The score panel shows at most one of loading, error and score.
ScorePanelExclusive ==
    CountTrue(<<cropSuccessLoading, cropSuccessError # "", cropSuccess # Null>>) <= 1

\* The soil panel shows at most one of loading, error and soil type.
SoilPanelExclusive ==
    CountTrue(<<soilTypeLoading, soilTypeError # "", soilType # "">>) <= 1

\* C11: in every reachable state at most one of loading, error and value holds
\* for the soil panel, and at most one for the score panel, also when analyze
\* submissions and recomputes overlap.
C11_PanelStatesExclusive == SoilPanelExclusive /\ ScorePanelExclusive

\* C16: neither fetchSoilType nor the scoring engine is ever invoked, by an analyze
\* submission or by the recompute effect, with a latitude or longitude that is
\* NaN, infinite, or outside [-90, 90] and [-180, 180].
C16_OnlyValidCoordinatesInvoked ==
    \A call \in invoked : ValidCoordinate(call.lat, call.lon)

\* C17: the score computation started by an analyze submission and the one
\* started by the dashboard reveal that follows that submission are never
\* outstanding at the same time.
C17_OneComputationPerAnalyze ==
    \A i, j \in 1..Len(scoreJobs) :
        (i # j /\ scoreJobs[i].sub = scoreJobs[j].sub) =>
            ~(scoreJobs[i].trig = "analyze" /\ scoreJobs[j].trig = "reveal")

\* The dashboard was revealed after an analyze submission with a coordinate that
\* parses: the reveal's computation is the only one outstanding.
C17_Witness ==
    /\ showDashboard /\ submissions >= 1
    /\ Len(scoreJobs) = 1
    /\ scoreJobs[1].trig = "reveal" /\ scoreJobs[1].sub = submissions
    /\ \E call \in invoked : call.fn = "score"

\* The engine's result for what the dashboard currently holds: the coordinate,
\* the dashboard date else the landing date, the dashboard crop else the landing
\* crop, and the soil type.
CurrentResult ==
    ComputeCropSuccessDetailed(ParseFloat(latitude), ParseFloat(longitude),
                               Or(dashboardDate, dateInput), Or(cropInput, cropType),
                               soilType, clockMonth)

\* The dashboard is shown, both coordinate fields parse and no score computation
\* is outstanding.
DashboardSettled ==
    /\ showDashboard
    /\ ~NumberIsNaN(ParseFloat(latitude)) /\ ~NumberIsNaN(ParseFloat(longitude))
    /\ scoreJobs = <<>>

\* C20: while the dashboard is shown and both coordinates parse, once no score
\* computation is outstanding the published score, details and trend are the
\* engine's result for the current coordinate, date, crop and soil type.
C20_PublishedScoreIsCurrent ==
    DashboardSettled =>
        /\ cropDetails = CurrentResult
        /\ cropSuccess = CurrentResult.score
        /\ cropTrend = CurrentResult.trend

\* The dashboard is settled on a soil type that the classification resolved to
\* after the analyze submission's first computation, with the crop changed in
\* the dashboard.
C20_Witness ==
    /\ DashboardSettled
    /\ soilType = "Sandy Loam" /\ soilAttempts = {}
    /\ cropInput = "potato"
    /\ cropDetails # NoResult
    /\ cropSuccess = CurrentResult.score

\* C18: handleSubmit calls onSubmit only when latitude and longitude parse,
\* the latitude is in [-90, 90], the longitude in [-180, 180] and a date is set,
\* and then with the parsed values and the date; in every other case onSubmit is
\* not called; in both cases the form's fields are left as they were.
C18_SubmitOnlyValidated ==
    lastSubmit # NoSubmit =>
        LET la == ParseFloat(lastSubmit.lat)
            lo == ParseFloat(lastSubmit.lon)
        IN  /\ lastSubmit.called <=> (ValidCoordinate(la, lo) /\ lastSubmit.date # "")
            /\ lastSubmit.called => lastSubmit.args = <<la, lo, lastSubmit.date>>
            /\ ~lastSubmit.called => lastSubmit.args = <<>>
            /\ lastSubmit.after = <<lastSubmit.lat, lastSubmit.lon, lastSubmit.date>>

\* onSubmit was called with the longitude on its limit, 180, after a date change.
C18_Witness ==
    /\ lastSubmit.called
    /\ lastSubmit.args = <<Num(10), Num(180), "2024-07-04">>

\* A fetchSoilType call starts in this step.
SoilAttemptStarts == soilCalls' = soilCalls + 1

\* C24: each soil classification attempt clears soilType and soilTypeError and
\* sets the loading flag as it sends its first query, and afterwards writes
\* soilType at most once, and only with a non-empty label.
C24_AttemptResetsThenWritesOnce ==
    [][/\ SoilAttemptStarts =>
            /\ soilType' = "" /\ soilTypeError' = "" /\ soilTypeLoading'
            /\ [id |-> soilCalls', phase |-> "primary"] \in soilAttempts'
       /\ \A id \in 1..Len(soilTrace) :
            soilTrace'[id].writes # soilTrace[id].writes =>
                /\ soilTrace[id].writes = 0 /\ soilTrace'[id].writes = 1
                /\ soilType' # ""]_vars

\* Two attempts have each written a soil type once; the second call cleared
\* what the first had written.
C24_Witness ==
    /\ Len(soilTrace) = 2
    /\ soilTrace[1].writes = 1 /\ soilTrace[2].writes = 1
    /\ soilWriter = 2 /\ soilType # "" /\ soilAttempts = {}

\* The labels a classification response carries, in the order they are tried.
LabelsOf(resp) ==
    SelectSeq(<<resp.body.USDA_TEXTURE_CLASS, resp.body.usda_texture_class,
                resp.body.texture_class>>, LAMBDA l : l # "")

\* The classification query produced no label: a non-success status, a thrown
\* error, or no non-empty label in the body.
NoPrimaryLabel(resp) == resp.kind # "ok" \/ ~resp.json \/ LabelsOf(resp) = <<>>

\* C25: within one attempt the property query is sent if and only if the
\* classification query produced no label, and only once that query has
\* finished; with a non-empty label the attempt resolves to exactly that label.
C25_SecondaryIffNoPrimaryLabel ==
    [][/\ \A resp \in PrimaryResponses :
            SoilPrimaryResponse(resp) =>
                /\ NoPrimaryLabel(resp) <=> InFallback' # InFallback
                /\ ~NoPrimaryLabel(resp) =>
                    /\ soilType' = Head(LabelsOf(resp))
                    /\ soilTrace'[soilWriter'].status = "resolved"
                    /\ Cardinality(soilAttempts') = Cardinality(soilAttempts) - 1
       /\ \A a \in InFallback' \ InFallback :
            [a EXCEPT !.phase = "primary"] \in soilAttempts]_vars

\* One attempt resolved to the label of its classification query while another
\* is waiting for its property query.
C25_Witness ==
    /\ soilSource.via = "primary" /\ soilType = "Silt Loam"
    /\ InFallback # {}

\* The rows of the decision table as the claim lists them, and a last row that
\* always applies.
DecisionTable(sand, clay) ==
    <<[applies |-> clay >= 40, label |-> "Clay"],
      [applies |-> clay >= 27 /\ sand <= 45, label |-> "Clay Loam"],
      [applies |-> sand >= 70 /\ clay <= 15, label |-> "Sandy Loam"],
      [applies |-> sand >= 85 /\ clay < 10, label |-> "Sand"],
      [applies |-> clay <= 10 /\ sand <= 52, label |-> "Silt Loam"],
      [applies |-> TRUE, label |-> "Loam"]>>

\* The label of the first row that applies.
FirstMatch(rows) == Head(SelectSeq(rows, LAMBDA row : row.applies)).label

\* C26: for every numeric pair (sand, clay) the fallback's classification is the
\* decision table evaluated in order, the first matching row winning.
C26_FallbackIsFirstMatch ==
    soilSource.via = "table" =>
        soilType = FirstMatch(DecisionTable(soilSource.sand, soilSource.clay))

\* The fallback classified sand 85, clay 5, which matches the Sandy Loam row
\* and the Sand row after it.
C26_Witness ==
    /\ soilSource = [via |-> "table", sand |-> 85, clay |-> 5]
    /\ soilType = "Sandy Loam"

\* The attempt that wrote the soil panel last ended with a property query that
\* returned a non-success status, threw, or carried a non-numeric sand or clay.
LastWriterSecondaryFailed ==
    /\ soilWriter \in 1..Len(soilTrace)
    /\ soilTrace[soilWriter].secondary \in {"http", "net", "badjson", "nonnumeric"}

\* The panel of a failed attempt: no soil type, an error, not loading.
FailedPanel == soilType = "" /\ soilTypeError # "" /\ ~soilTypeLoading

\* C27: when the classification query yields no label and the property query
\* returns a non-success status, throws, or yields a non-numeric sand or clay,
\* the attempt ends Failed: soilType is empty, soilTypeError is non-empty and
\* the loading flag is false.
C27_FailedAttemptLeavesFailedPanel ==
    LastWriterSecondaryFailed =>
        /\ soilTrace[soilWriter].status = "failed"
        /\ FailedPanel

\* The same for an attempt that no other attempt overlapped.
SoleAttemptFailedPanel ==
    (LastWriterSecondaryFailed /\ soilCalls = 1) =>
        /\ soilTrace[soilWriter].status = "failed"
        /\ FailedPanel

\* Attempt id is running; attempt id has ended Resolved or Failed and is gone
\* from the calls that have not returned.
AttemptRunning(id) == id \in 1..Len(soilTrace) /\ soilTrace[id].status = "running"
AttemptEnded(id) ==
    /\ id \in 1..Len(soilTrace)
    /\ soilTrace[id].status \in {"resolved", "failed"}
    /\ \A a \in soilAttempts : a.id # id

\* C28: provided each network call eventually returns or fails, every soil
\* classification attempt eventually ends Resolved, having set soilType, or
\* Failed, having set soilTypeError, with the loading flag cleared by the same
\* step, and writes nothing afterwards.
C28_EveryAttemptTerminates ==
    /\ \A id \in 1..MaxAttempts : AttemptRunning(id) ~> AttemptEnded(id)
    /\ [][\A id \in 1..Len(soilTrace) :
            /\ (AttemptRunning(id) /\ ~AttemptRunning(id)') =>
                /\ AttemptEnded(id)' /\ ~soilTypeLoading' /\ soilWriter' = id
                /\ soilTrace'[id].status = "resolved" => soilType' # ""
                /\ soilTrace'[id].status = "failed" => soilTypeError' # ""
            /\ AttemptEnded(id) =>
                /\ soilTrace'[id] = soilTrace[id]
                /\ soilWriter' = id => soilWriter = id]_vars

\* Two attempts have ended, the first Failed and the second Resolved.
C28_Witness ==
    /\ AttemptEnded(1) /\ soilTrace[1].status = "failed"
    /\ AttemptEnded(2) /\ soilTrace[2].status = "resolved"

\* The coordinate fields hold map point p.
CoordinateIs(p) ==
    /\ latitude = NumberToString(Num(p.lat))
    /\ longitude = NumberToString(Num(p.lon))

\* C29: after map clicks at c1 and then c2, once both reverse lookups have
\* completed, the place name is not the one returned for c1: the name of another
\* point is never left displayed next to the coordinate of the last click.
C29_NameBelongsToLastClick ==
    (revReqs = {} /\ locationMethod = "map") =>
        \A p, q \in MapPoints :
            (CoordinateIs(p) /\ q # p) => placeName # q.display_name

\* The dashboard shows a soil type that the last writing attempt resolved to,
\* and no attempt is running.
SoilTypeDisplayed ==
    /\ showDashboard /\ soilType # "" /\ soilAttempts = {}
    /\ soilWriter \in 1..Len(soilTrace)
    /\ soilTrace[soilWriter].status = "resolved"

\* C21: whenever a soil type is displayed and no classification attempt is
\* running, that soil type was classified for the current coordinate.
C21_SoilTypeIsForCurrentCoordinate ==
    SoilTypeDisplayed =>
        /\ soilTrace[soilWriter].lat = ParseFloat(latitude)
        /\ soilTrace[soilWriter].lon = ParseFloat(longitude)

\* The recompute effect runs in this step, for a dashboard that is shown, while
\* a coordinate field does not parse.
RecomputeWithUnparsableCoordinate ==
    /\ Deps' # Deps
    /\ showDashboard'
    /\ ParseFloat(latitude') = NaN \/ ParseFloat(longitude') = NaN

\* C22: when the recompute effect is triggered while a coordinate field does
\* not parse to a number, no score computation is started and the published
\* score, details, trend, score error and score loading flag are unchanged.
C22_NoRecomputeOnUnparsable ==
    [][RecomputeWithUnparsableCoordinate =>
            UNCHANGED <<scoreJobs, cropSuccess, cropDetails, cropTrend, cropSuccessError,
                        cropSuccessLoading, invoked>>]_vars

\* The dashboard is shown over coordinate fields that do not parse, with the
\* crop changed in the dashboard and nothing computed.
C22_Witness ==
    /\ showDashboard /\ ParseFloat(latitude) = NaN
    /\ cropInput = "potato"
    /\ scoreJobs = <<>> /\ cropSuccess = Null /\ ~cropSuccessLoading

\* C30: any two requests sent by searchLocation are at least requestDelay
\* apart, also when a call starts while an earlier one sleeps or is in flight.
C30_RequestsSpacedByDelay ==
    \A i, j \in 1..Len(sendLog) : i < j => sendLog[j] - sendLog[i] >= RequestDelay

\* A step that cancels the place lookup in flight: the effect's cleanup (or the
\* unmount) aborts its fetch, and the aborted lookup runs its catch and finally.
PlaceCancelled ==
    /\ reqs["place"] # {} /\ reqs'["place"] = {}
    /\ published'["place"] = published["place"]

\* The place lookups that were sent and cancelled before they settled.
CancelledLookups ==
    {c \in issued["place"] : c \notin reqs["place"] /\ c.ver > published["place"]}

\* C23, as stated: a cancelled place lookup writes none of the session state
\* after its cancellation, the loading flag included.
C23_CancelledWritesNothing ==
    [][PlaceCancelled => placeGeocodeLoading' = placeGeocodeLoading]_vars

\* C23, amended: the cancelled lookup clears the loading flag in its finally and
\* writes nothing else (the coordinate changes only by the map click that
\* cancelled it, the match and the error only by the new run emptying them);
\* the lookup in flight always has its loading flag on, so no cancelled lookup
\* turned it off.
C23_CancelledOnlyClearsLoading ==
    /\ [](reqs["place"] # {} => placeGeocodeLoading)
    /\ [][PlaceCancelled =>
            /\ placeGeocodeLoading' = FALSE
            /\ <<latitude', longitude'>> # <<latitude, longitude>> => revReqs' # revReqs
            /\ placeMatch' \in {placeMatch, <<>>}
            /\ placeGeocodeError' \in {placeGeocodeError, ""}]_vars

\* A lookup was cancelled and the lookup that superseded it is in flight.
C23_Witness ==
    /\ placeGeocodeLoading
    /\ \E c \in CancelledLookups, r \in reqs["place"] : c.ver < r.ver

\* The seasonal buckets, as the months of each and what it adds.
SeasonalBuckets ==
    {[months |-> {3, 4, 5}, adds |-> 6], [months |-> {6, 7, 8}, adds |-> 2],
     [months |-> {9, 10, 11}, adds |-> 4], [months |-> {12, 1, 2}, adds |-> -3]}

\* The buckets month m is in.
BucketsOf(m) == {b \in SeasonalBuckets : m \in b.months}

\* Soil adjustment and rainfall proxy of the arguments in engineIn.
SoilAdjOfEngineIn ==
    SoilAdj(ToLowerCase(Letters(engineIn.crop)), ToLowerCase(Letters(engineIn.soil)))
RestOfEngineIn == SoilAdjOfEngineIn + RainProxy(engineIn.lat)

\* C31: for every month m in 1..12 exactly one seasonal bucket applies, to the
\* score (in the month the engine resolved) and to trend entry m - 1 (the m-th
\* entry here): +6 for 3..5, +2 for 6..8, +4 for 9..11, -3 for 12, 1, 2.
C31_OneSeasonalBucket ==
    EngineReturned =>
        LET base == Base(engineIn.lat, engineIn.lon) IN
        /\ \A m \in 1..12 : Cardinality(BucketsOf(m)) = 1
        /\ \E b \in BucketsOf(engineOut.month) :
            /\ engineOut.factors[2].value = Num(b.adds)
            /\ engineOut.score = MathRound(ClampScore(Plus(base, b.adds + RestOfEngineIn)))
        /\ \A m \in 1..12 : \E b \in BucketsOf(m) :
            engineOut.trend[m] = Clamp0To100(Plus(base, b.adds + RestOfEngineIn))

\* The engine returned an autumn score for a finite coordinate: base 65, +4.
C31_Witness ==
    /\ EngineReturned /\ engineOut.month = 9
    /\ engineIn.lat = Num(0) /\ engineIn.lon = Num(0)
    /\ engineIn.crop = "" /\ engineIn.soil = ""
    /\ engineOut.factors[2].value = Num(4)
    /\ engineOut.score = Num(73)
    /\ engineOut.trend[5] = Num(75000)

\* The soil rule of the spec on the soil labels and crop names that occur: the
\* soil types that contain clay, sandy and loam, and the crops that contain
\* rice, carrot or potato, peanut or cotton.
RuleSoilAdj(soil, crop) ==
    CASE soil \in {"Clay", "Clay Loam"} ->
            (IF crop = "Rice" THEN 8 ELSE IF crop \in {"carrot", "potato"} THEN -4 ELSE 0)
      [] soil = "Sandy Loam" ->
            (IF crop \in {"peanut", "cotton"} THEN 6 ELSE IF crop = "Rice" THEN -6 ELSE 0)
      [] soil \in {"Silt Loam", "Loam"} -> 5
      [] OTHER -> 0

\* C32: for every soil type among the classifier's labels (and none) and every
\* crop name, the soil adjustment is the spec rule by case-insensitive substring
\* match: clay +8 with rice, -4 with carrot or potato; sandy +6 with peanut or
\* cotton, -6 with rice; loam not otherwise matched +5; else 0.
C32_SoilAdjFollowsRule ==
    EngineReturned =>
        /\ SoilAdjOfEngineIn = RuleSoilAdj(engineIn.soil, engineIn.crop)
        /\ engineOut.factors[3].value = Num(RuleSoilAdj(engineIn.soil, engineIn.crop))

\* The engine returned for carrot on Clay Loam: clay, not loam, decides.
C32_Witness ==
    /\ EngineReturned
    /\ engineIn.soil = "Clay Loam" /\ engineIn.crop = "carrot"
    /\ engineOut.factors[3] = [label |-> "Soil compatibility", value |-> Num(-4), sign |-> "-"]

\* The four conditions of the confidence, on the arguments in engineIn.
SoilKnown == engineIn.soil # ""
CropKnown == engineIn.crop # ""
DateSupplied == engineIn.date # ""
BothFinite == NumberIsFinite(engineIn.lat) /\ NumberIsFinite(engineIn.lon)

\* 0.5 + 0.15 + 0.15 + 0.1 + 0.1 over the conditions that hold, in hundredths.
ConfidenceSum ==
    50 + (IF SoilKnown THEN 15 ELSE 0) + (IF CropKnown THEN 15 ELSE 0)
       + (IF DateSupplied THEN 10 ELSE 0) + (IF BothFinite THEN 10 ELSE 0)

\* C33: the confidence is 0.5 plus 0.15 for a known soil type, 0.15 for a known
\* crop name, 0.1 for a supplied date and 0.1 for two finite coordinates,
\* clamped to [0.4, 0.95]; it is 0.95 exactly when all four hold.
C33_ConfidenceFromFourConditions ==
    EngineReturned =>
        /\ engineOut.confidence =
                (IF ConfidenceSum > 95 THEN 95 ELSE IF ConfidenceSum < 40 THEN 40
                 ELSE ConfidenceSum)
        /\ engineOut.confidence = 95 <=>
                (SoilKnown /\ CropKnown /\ DateSupplied /\ BothFinite)

\* The engine returned 0.90 for a date that does not parse and an infinite
\* latitude, with soil and crop known.
C33_Witness ==
    /\ EngineReturned
    /\ engineIn.date = "soon" /\ engineIn.lat = Infinity
    /\ SoilKnown /\ CropKnown
    /\ engineOut.confidence = 90

\* The sign of a number: negative, zero, positive, or none for NaN.
Sgn(x) ==
    IF ~NumberIsFinite(x) THEN "nan"
    ELSE IF x.v < 0 THEN "negative" ELSE IF x.v = 0 THEN "zero" ELSE "positive"

\* The labels of the factors, in the order of the spec.
FactorLabels ==
    <<"Coords base", "Seasonality", "Soil compatibility", "Rainfall proxy", "Clamp">>

\* The raw values of the five factors for the arguments in engineIn.
RawFactors ==
    <<Base(engineIn.lat, engineIn.lon), Num(Season(engineOut.month)),
      Num(SoilAdjOfEngineIn), Num(RainProxy(engineIn.lat)), ClampAdj(RawOfEngineIn)>>

\* The sign symbol the engine gives the base factor for coordinate (la, lo).
BaseSignAt(la, lo) == ComputeCropSuccessDetailed(la, lo, "", "", "", 1).factors[1].sign

\* C34: every engine result carries exactly five factors in the fixed order,
\* each with a whole-number value and a sign symbol that is determined by the
\* sign of its raw value; the clamp factor's sign is the plus-minus symbol
\* only when its value is nonzero and empty otherwise.
C34_FiveFactorsWithSigns ==
    EngineReturned =>
        /\ Len(engineOut.factors) = 5
        /\ \A i \in 1..5 :
            /\ engineOut.factors[i].label = FactorLabels[i]
            /\ NumberIsFinite(engineOut.factors[i].value)
        /\ \A i \in 2..4 :
            engineOut.factors[i].sign = (IF Sgn(RawFactors[i]) = "negative" THEN "-" ELSE "+")
        /\ \A in \in EngineInputs :
            Sgn(Base(in.lat, in.lon)) = Sgn(RawFactors[1])
                => BaseSignAt(in.lat, in.lon) = engineOut.factors[1].sign
        /\ engineOut.factors[5].sign =
                (IF engineOut.factors[5].value # Num(0) THEN "+-" ELSE "")

\* C38: for every input the score is the rounded trend entry of the resolved
\* month, score = round(trend[month - 1]) (the month-th entry here); for a
\* coordinate that is not finite both are NaN.
C38_ScoreIsRoundedTrendEntry ==
    EngineReturned => engineOut.score = MathRound(engineOut.trend[engineOut.month])

\* The engine returned 70 for July at (60, 90): the trend entry is 69.5.
C38_Witness ==
    /\ EngineReturned /\ engineOut.month = 7
    /\ engineOut.trend[7] = Num(69500)
    /\ engineOut.score = Num(70)

\* C39: for a latitude in [-90, 90] and a longitude in [-180, 180] the base is in
\* [40, 75] and the unclamped score in [31, 93]: clamping never changes the
\* score, the Clamp factor is 0 with an empty sign, and no trend entry is
\* clamped.
C39_NoClampForValidCoordinates ==
    (EngineReturned /\ ValidCoordinate(engineIn.lat, engineIn.lon)) =>
        LET base == Base(engineIn.lat, engineIn.lon)
            raw == RawOfEngineIn
        IN  /\ NumberIsFinite(base) /\ base.v >= 40000 /\ base.v <= 75000
            /\ NumberIsFinite(raw) /\ raw.v >= 31000 /\ raw.v <= 93000
            /\ engineOut.score = MathRound(raw)
            /\ engineOut.factors[5] = [label |-> "Clamp", value |-> Num(0), sign |-> ""]
            /\ \A m \in 1..12 :
                engineOut.trend[m] =
                    RawScore(engineIn.lat, engineIn.lon, m, engineIn.crop, engineIn.soil)

\* The engine returned the lowest score of a valid coordinate: base 40, winter,
\* rice on sandy soil.
C39_Witness ==
    /\ EngineReturned /\ ValidCoordinate(engineIn.lat, engineIn.lon)
    /\ RawOfEngineIn = Num(31000)
    /\ engineOut.score = Num(31)
    /\ engineOut.trend[1] = Num(31000)

\* C40: in every reachable state the published score fields are coherent:
\* cropSuccess is a number if and only if cropDetails is non-null, and then
\* cropSuccess is cropDetails.score and cropTrend is cropDetails.trend.
C40_PublishedFieldsCoherent ==
    /\ cropSuccess # Null <=> cropDetails # NoResult
    /\ cropDetails # NoResult =>
        /\ cropSuccess = cropDetails.score
        /\ cropTrend = cropDetails.trend

\* C37: soilTypeLoading is true whenever a soil classification attempt is in
\* flight, and cropSuccessLoading is true whenever a score computation is in
\* flight, also when attempts overlap and an earlier one finishes first.
C37_LoadingWhileInFlight ==
    /\ soilAttempts # {} => soilTypeLoading
    /\ scoreJobs # <<>> => cropSuccessLoading

\* The suggestion whose name is the place name: the one the user picked last,
\* with no change of the location since.
PickedSuggestions ==
    {areaSuggestions[i] : i \in {j \in 1..Len(areaSuggestions) :
                                    areaSuggestions[j].display_name = placeName}}

\* C35: after the user picks an area suggestion on the dashboard, the coordinate
\* stays the suggestion's until the user next changes the location: no lookup
\* triggered by the pick overwrites it or reports a no-match error.
C35_PickedCoordinateStays ==
    (stream = "pick" /\ locationMethod = "place") =>
        \A sug \in PickedSuggestions :
            /\ latitude = sug.lat /\ longitude = sug.lon
            /\ placeGeocodeError # "No match found"

\* The user selected a search result and has not edited the search text since:
\* the text is the selected location's name, which no typing produces.
ResultSelected == stream = "loc" /\ lat # "" /\ searchQuery = locationName

\* C36: after the user selects a search result, no further geocoding lookup is
\* issued and the results dropdown stays closed until the user edits the search
\* text.
C36_NoLookupAfterSelect ==
    ResultSelected =>
        /\ ~showSearchResults
        /\ \A r \in issued["loc"] : r.q # locationName

====
